---- MODULE Spec2Model ----
(***************************************************************************)
(* Dictionary import pipeline of english_read.                             *)
(*                                                                         *)
(* DictionaryImporter.import_dictionary (backend/dictionary_importer.py)   *)
(* is modelled statement by statement at the granularity of its calls to   *)
(* shared state: the storage gateway (self.db), the task registry          *)
(* (self._import_tasks) and the caller's progress callback.  Code that     *)
(* only touches locals of the call (pulling entries from the parser into   *)
(* the in-memory batch) is folded into the step that precedes the next     *)
(* shared access.  The HTTP import handler (backend/main.py) and           *)
(* DictionaryImporter.delete_dictionary and get_import_status run          *)
(* concurrently with imports (specification Spec).                         *)
(*                                                                         *)
(* The parsers of backend/dictionary_parser.py (detect_format, the four    *)
(* parse() generators, _parse_exchange, get_preview) are functions of one  *)
(* source; specification ParserSpec applies them to every source of a      *)
(* bounded set.  A text is a sequence of symbols.                          *)
(*                                                                         *)
(* The dictionary methods of DatabaseManager are not part of the source    *)
(* tree; they are modelled from the storage gateway contract.              *)
(*                                                                         *)
(* Progress values are Python floats in the code; here they are exact      *)
(* fractions [num, den] in lowest terms.                                   *)
(***************************************************************************)
EXTENDS Integers, Sequences, FiniteSets, TLC

\* ---- program constants -------------------------------------------------
BATCH_SIZE == 1000
PROGRESS_UPDATE_INTERVAL == 5000

\* ---- bounds of the model -----------------------------------------------
\* largest number of full batches a single (unaccompanied) import reads
MaxBatches == 10
\* largest number of full batches of an import that runs next to another one
MaxSmallBatches == 0
\* number of storage/parser/callback calls that may raise in one behaviour
MaxFaults == 1

Threads == {1, 2}
Names == {"a", "b"}
\* sizes of the trailing partial batch that are tried for every batch count
Remainders == {0, 1, BATCH_SIZE - 1}

\* ---- progress fractions ------------------------------------------------
RECURSIVE GCD(_, _)
GCD(a, b) == IF b = 0 THEN a ELSE GCD(b, a % b)

Frac(n, d) == LET g == GCD(n, d) IN [num |-> n \div g, den |-> d \div g]
Leq(p, q) == p.num * q.den <= q.num * p.den
Zero == [num |-> 0, den |-> 1]
Half == [num |-> 1, den |-> 2]
Cap == [num |-> 99, den |-> 100]
One == [num |-> 1, den |-> 1]
FMin(p, q) == IF Leq(p, q) THEN p ELSE q

\* ---- pure pieces of import_dictionary ----------------------------------
\* a variant of BatchFull under which no full batch is ever passed on
BatchFullNever(len) == FALSE

\* `if len(batch) >= self.BATCH_SIZE`
BatchFull(len) == len >= BATCH_SIZE

\* `if imported_count - last_progress_update >= self.PROGRESS_UPDATE_INTERVAL`
ProgressDue(imported, last) == imported - last >= PROGRESS_UPDATE_INTERVAL

\* a variant of ProgressValue without the 0.99 cap
ProgressValueUncapped(imported, total) ==
    IF total > 0 THEN Frac(imported, total) ELSE Half

\* `min(imported_count / total_count, 0.99) if total_count > 0 else 0.5`
ProgressValue(imported, total) ==
    IF total > 0 THEN FMin(Frac(imported, total), Cap) ELSE Half

\* a variant of NeedsFlush that drops the trailing partial batch
NeedsFlushNever(len) == FALSE

\* `if batch:` before the trailing add_dictionary_entries_batch
NeedsFlush(len) == len > 0

\* DictionaryParser.detect_format seen from the importer: the tag of a file
FormatOf(file) == IF file = "csv" THEN "csv" ELSE "unknown"

Min(a, b) == IF a <= b THEN a ELSE b
CeilDiv(a, b) == (a + b - 1) \div b

VARIABLES
    dictionaries,          \* durable store: id -> dictionary record
    entries,               \* durable store: id -> number of entry rows held
    nextId,                \* durable store: next identifier handed out
    import_tasks,          \* self._import_tasks: id -> ImportTask
    req,                   \* the request each thread serves
    pc,                    \* position of each thread
    loopOwner,             \* the request handler the event loop is running
    dictionary_id, total_count, remaining, batch, imported_count,
    last_progress_update, progress,
    error_msg,             \* str(e) of the exception an import raised
    cause,                 \* which call raised it, and where
    faultsLeft,
    dpc, dtarget, dresult, dreturn, \* the one delete_dictionary call of a behaviour
    ppc, ptarget, presult, \* the one get_import_status call of a behaviour
    \* history, kept for stating properties
    persisted,             \* id -> entries passed to successful batch calls
    batchCalls,            \* thread -> successful add_dictionary_entries_batch
    batches,               \* thread -> the batches passed, as parser positions
    log,                   \* thread -> writes and callbacks of its import
    createCalls,           \* thread -> successful create_dictionary calls
    \* the parser side: one parser operation applied to one source
    source,                \* the file, string or document the operation reads
    phase,                 \* how far the operation is
    result,                \* what it returned, or the entries it yielded
    pulled                 \* items requested from the lazy sequence of parse()

store == <<dictionaries, entries, nextId>>
locals == <<dictionary_id, total_count, remaining, batch, imported_count,
            last_progress_update, progress, error_msg, cause>>
deleter == <<dpc, dtarget, dresult, dreturn>>
poller == <<ppc, ptarget, presult>>
history == <<persisted, batchCalls, batches, log, createCalls>>
parsing == <<source, phase, result, pulled>>
vars == <<store, import_tasks, req, pc, loopOwner, locals, faultsLeft,
          deleter, poller, history, parsing>>

\* ---- storage gateway (DatabaseManager dictionary methods) --------------
NoCount == -1

\* get_dictionary_by_name(name): the records carrying that name
get_dictionary_by_name(name) ==
    {id \in DOMAIN dictionaries : dictionaries[id].name = name}

\* create_dictionary(...): a record under a fresh identifier
create_dictionary(id, name, format, status) ==
    /\ id = nextId
    /\ nextId' = nextId + 1
    /\ dictionaries' = dictionaries @@
          (id :> [name |-> name, source_format |-> format,
                  import_status |-> status, import_progress |-> Zero,
                  entry_count |-> 0, import_error |-> ""])
    /\ entries' = entries @@ (id :> 0)
    /\ persisted' = persisted @@ (id :> 0)

\* add_dictionary_entries_batch(id, batch): len(batch) more rows under id
add_dictionary_entries_batch(id, len) ==
    /\ entries' = [entries EXCEPT ![id] = @ + len]
    /\ persisted' = [persisted EXCEPT ![id] = @ + len]
    /\ UNCHANGED <<dictionaries, nextId>>

\* update_import_progress(id, progress, status, entry_count=None, error=None)
update_import_progress(id, p, status, count, error) ==
    /\ dictionaries' =
         IF id \in DOMAIN dictionaries
         THEN [dictionaries EXCEPT ![id] =
                 [@ EXCEPT !.import_progress = p,
                           !.import_status = status,
                           !.entry_count = IF count = NoCount THEN @ ELSE count,
                           !.import_error = IF error = "" THEN @ ELSE error]]
         ELSE dictionaries
    /\ UNCHANGED <<entries, nextId>>

\* delete_dictionary(id): removes the record and its rows
db_delete_dictionary(id) ==
    /\ dictionaries' = [i \in DOMAIN dictionaries \ {id} |-> dictionaries[i]]
    /\ entries' = [entries EXCEPT ![id] = 0]
    /\ UNCHANGED nextId

AffectedBy(id) == IF id \in DOMAIN dictionaries THEN 1 ELSE 0

\* ---- requests ----------------------------------------------------------
BulkSizes == {b * BATCH_SIZE + r : b \in 0..MaxBatches, r \in Remainders}
SmallSizes == {b * BATCH_SIZE + r : b \in 0..MaxSmallBatches, r \in {0, 1}}
Totals(n) == {0, n \div 2, n}

NoRequest == [via |-> "none", file |-> "missing", name |-> "a", n |-> 0,
              total |-> 0, cb |-> FALSE]

SyncRequest(file, name, n, total, cb) ==
    [via |-> "sync", file |-> file, name |-> name, n |-> n, total |-> total,
     cb |-> cb]
HttpRequest(file, name, n) ==
    [via |-> "http", file |-> file, name |-> name, n |-> n, total |-> n,
     cb |-> FALSE]

\* requests served while nothing else is imported
SoloRequests ==
    {SyncRequest(f, "a", 0, 0, FALSE) : f \in {"missing", "unknown"}}
    \cup UNION {{SyncRequest("csv", "a", n, tot, cb) :
                   tot \in Totals(n), cb \in BOOLEAN} : n \in BulkSizes}
    \cup {HttpRequest(f, "a", 0) : f \in {"missing", "unknown"}}
    \cup {HttpRequest("csv", "a", n) : n \in SmallSizes}

\* requests served next to another request
PairRequests(names, sizes) ==
    UNION {{SyncRequest("csv", name, n, n, FALSE), HttpRequest("csv", name, n)} :
             name \in names, n \in sizes}

\* direct calls on a path that does not exist, next to another request
MissingRequests == {SyncRequest("missing", name, 0, 0, FALSE) : name \in Names}

\* ---- what get_import_status returns --------------------------------------
Status(kind, status, p, count, error) ==
    [kind |-> kind, status |-> status, progress |-> p, entry_count |-> count,
     error |-> error]
\* `return None`
NoStatus == Status("none", "", Zero, 0, "")
\* `self._import_tasks[dictionary_id]` of a missing key
KeyErrorRaised == Status("error", "", Zero, 0, "KeyError")
\* `return self._import_tasks[dictionary_id]`
TaskStatus(k) == Status("task", k.status, k.progress, k.entry_count, k.error)
\* `return {'dictionary_id': ..., 'status': dictionary['import_status'], ...}`
RecordStatus(d) ==
    Status("record", d.import_status, d.import_progress, d.entry_count,
           d.import_error)

\* ---- text ---------------------------------------------------------------
\* A text is a sequence of symbols: single characters where the code looks at
\* characters, and runs of letters elsewhere.
Blank == " "
Undecodable == "\\xff"

RECURSIVE lstrip(_)
lstrip(s) == IF s # <<>> /\ Head(s) = Blank THEN lstrip(Tail(s)) ELSE s

RECURSIVE rstrip(_)
rstrip(s) ==
    IF s # <<>> /\ s[Len(s)] = Blank THEN rstrip(SubSeq(s, 1, Len(s) - 1)) ELSE s

\* str.strip()
strip(s) == rstrip(lstrip(s))

\* `needle in text`
Contains(text, needle) ==
    \E i \in 1..(Len(text) - Len(needle) + 1) :
        SubSeq(text, i, i + Len(needle) - 1) = needle

LowerCase == ("C" :> "c") @@ ("S" :> "s") @@ ("V" :> "v") @@ ("J" :> "j")
             @@ ("O" :> "o") @@ ("N" :> "n") @@ ("M" :> "m") @@ ("D" :> "d")
             @@ ("X" :> "x") @@ ("Word" :> "word") @@ ("Meaning" :> "meaning")

\* str.lower()
lower(s) ==
    [i \in DOMAIN s |-> IF s[i] \in DOMAIN LowerCase THEN LowerCase[s[i]] ELSE s[i]]

\* all texts of at most n symbols drawn from `symbols`
TextsUpTo(symbols, n) == UNION {[1..k -> symbols] : k \in 0..n}

\* ---- DictionaryParser.detect_format --------------------------------------
\* open(..., errors='ignore').readline(): undecodable bytes are dropped
Decoded(line) == SelectSeq(line, LAMBDA c : c # Undecodable)

\* a variant of detect_format that compares the suffix as it is written
detect_format_as_written(file) ==
    LET ext == file.suffix
        first_line == Decoded(file.first_line)
    IN IF ext = <<".", "m", "d", "x">> THEN "mdx"
       ELSE IF ext = <<".", "j", "s", "o", "n">> THEN "json"
       ELSE IF ext = <<".", "c", "s", "v">>
       THEN IF /\ file.readable
               /\ Contains(first_line, <<"word">>)
               /\ Contains(first_line, <<"translation">>)
               /\ \/ Contains(first_line, <<"phonetic">>)
                  \/ Contains(first_line, <<"exchange">>)
            THEN "ecdict" ELSE "csv"
       ELSE "unknown"

\* detect_format(file_path); a file that cannot be opened raises inside the
\* try block and falls through to 'csv'
detect_format(file) ==
    LET ext == lower(file.suffix)
        first_line == Decoded(file.first_line)
    IN IF ext = <<".", "m", "d", "x">> THEN "mdx"
       ELSE IF ext = <<".", "j", "s", "o", "n">> THEN "json"
       ELSE IF ext = <<".", "c", "s", "v">>
       THEN IF /\ file.readable
               /\ Contains(first_line, <<"word">>)
               /\ Contains(first_line, <<"translation">>)
               /\ \/ Contains(first_line, <<"phonetic">>)
                  \/ Contains(first_line, <<"exchange">>)
            THEN "ecdict" ELSE "csv"
       ELSE "unknown"

\* the files detect_format is applied to
MaxHeader == 3
Suffixes == {<<>>, <<".", "c", "s", "v">>, <<".", "C", "S", "V">>,
             <<".", "C", "s", "v">>, <<".", "j", "s", "o", "n">>,
             <<".", "J", "S", "O", "N">>, <<".", "m", "d", "x">>,
             <<".", "M", "d", "X">>, <<".", "t", "x", "t">>}
HeaderSymbols == {"word", "translation", "phonetic", "exchange", "Word",
                  Undecodable}
Files ==
    {[kind |-> "file", suffix |-> x, readable |-> r, first_line |-> l] :
        x \in Suffixes, r \in BOOLEAN, l \in TextsUpTo(HeaderSymbols, MaxHeader)}

\* ---- ECDICTParser._parse_exchange ----------------------------------------
\* an Optional[...] return value
None == [is |-> "none"]
Some(v) == [is |-> "some", value |-> v]

\* the position of the first `sep` in s, 0 when there is none
Find(s, sep) ==
    IF \E i \in 1..Len(s) : s[i] = sep
    THEN CHOOSE i \in 1..Len(s) : s[i] = sep /\ \A j \in 1..(i - 1) : s[j] # sep
    ELSE 0

\* str.split(sep)
RECURSIVE split(_, _)
split(s, sep) ==
    LET i == Find(s, sep)
    IN IF i = 0 THEN <<s>>
       ELSE <<SubSeq(s, 1, i - 1)>> \o split(SubSeq(s, i + 1, Len(s)), sep)

\* a variant of EXCHANGE_TYPES that lacks the code of the third person
EXCHANGE_TYPES_without_3 ==
    (<<"p">> :> <<"past">>) @@ (<<"d">> :> <<"done">>) @@ (<<"i">> :> <<"ing">>)
    @@ (<<"r">> :> <<"er">>) @@ (<<"t">> :> <<"est">>)
    @@ (<<"s">> :> <<"plural">>) @@ (<<"0">> :> <<"lemma">>)
    @@ (<<"1">> :> <<"lemma">>)

EXCHANGE_TYPES ==
    (<<"p">> :> <<"past">>) @@ (<<"d">> :> <<"done">>) @@ (<<"i">> :> <<"ing">>)
    @@ (<<"3">> :> <<"third">>) @@ (<<"r">> :> <<"er">>) @@ (<<"t">> :> <<"est">>)
    @@ (<<"s">> :> <<"plural">>) @@ (<<"0">> :> <<"lemma">>)
    @@ (<<"1">> :> <<"lemma">>)

\* `d[key] = value` on a dict
Put(d, key, value) ==
    [k \in DOMAIN d \cup {key} |-> IF k = key THEN value ELSE d[k]]

\* `for part in parts: if ':' in part: ...`
RECURSIVE ExchangeOf(_, _)
ExchangeOf(parts, mapping) ==
    IF parts = <<>> THEN mapping
    ELSE LET part == Head(parts)
             colon == Find(part, ":")
             type_code == SubSeq(part, 1, colon - 1)
             form == SubSeq(part, colon + 1, Len(part))
             type_name == IF type_code \in DOMAIN EXCHANGE_TYPES
                          THEN EXCHANGE_TYPES[type_code] ELSE type_code
         IN IF colon > 0
            THEN ExchangeOf(Tail(parts), Put(mapping, type_name, form))
            ELSE ExchangeOf(Tail(parts), mapping)

\* a variant of parse_exchange without `if result else None`
parse_exchange_keeps_empty(exchange_str) ==
    IF exchange_str = <<>> THEN None
    ELSE Some(ExchangeOf(split(exchange_str, "/"), <<>>))

\* _parse_exchange(exchange_str)
parse_exchange(exchange_str) ==
    IF exchange_str = <<>> THEN None
    ELSE LET mapping == ExchangeOf(split(exchange_str, "/"), <<>>)
         IN IF DOMAIN mapping # {} THEN Some(mapping) ELSE None

\* the exchange strings the decoder is applied to: up to MaxParts parts
MaxParts == 2
ExchangeParts == {<<"p", ":", "went">>, <<"d", ":", "gone">>,
                  <<"i", ":", "going">>, <<"3", ":", "goes">>,
                  <<"r", ":", "better">>, <<"t", ":", "best">>,
                  <<"s", ":", "geese">>, <<"0", ":", "go">>,
                  <<"1", ":", "be">>,
                  <<"x", ":", "y">>, <<"went">>, <<>>}

\* the example of the docstring of _parse_exchange
WentGoneGoingGoes ==
    <<"p", ":", "went", "/", "d", ":", "gone", "/", "i", ":", "going", "/",
      "3", ":", "goes">>

RECURSIVE Joined(_, _)
Joined(parts, sep) ==
    IF Len(parts) = 0 THEN <<>>
    ELSE IF Len(parts) = 1 THEN parts[1]
    ELSE parts[1] \o <<sep>> \o Joined(Tail(parts), sep)

ExchangeStrings ==
    {[kind |-> "exchange", text |-> Joined(parts, "/")] :
        parts \in TextsUpTo(ExchangeParts, MaxParts)}
    \cup {[kind |-> "exchange", text |-> WentGoneGoingGoes]}

\* ---- JSONParser.parse ----------------------------------------------------
\* JSON values: a string, an object whose members are strings, anything else
Str(t) == [type |-> "str", text |-> t]
Dict(f) == [type |-> "dict", fields |-> f]
Other == [type |-> "other"]

\* dict.get(key, default)
Get(d, key, default) == IF key \in DOMAIN d THEN d[key] ELSE default

\* what a generator has yielded, and whether it ended by raising
Yielded(es) == [raised |-> "", entries |-> es]
Raising(error) == [raised |-> error, entries |-> <<>>]

\* `for key in [...]: if key in item and item[key]: ...` of the array form
RECURSIVE CopyNonEmpty(_, _, _)
CopyNonEmpty(keys, item, entry) ==
    IF keys = <<>> THEN entry
    ELSE LET key == Head(keys)
         IN IF key \in DOMAIN item /\ item[key] # <<>>
            THEN CopyNonEmpty(Tail(keys), item,
                     Put(entry, IF key = "phonetic" THEN "phonetic_uk" ELSE key,
                         item[key]))
            ELSE CopyNonEmpty(Tail(keys), item, entry)

\* `for key in [...]: if key in value: entry[key] = value[key]` of the map form
RECURSIVE CopyPresent(_, _, _)
CopyPresent(keys, value, entry) ==
    IF keys = <<>> THEN entry
    ELSE LET key == Head(keys)
         IN IF key \in DOMAIN value
            THEN CopyPresent(Tail(keys), value, Put(entry, key, value[key]))
            ELSE CopyPresent(Tail(keys), value, entry)

Entry(word, translation) == ("word" :> word) @@ ("translation" :> translation)

\* the entries one item of the array form yields (one or none)
json_array_item(item) ==
    IF item.type # "dict" THEN <<>>
    ELSE LET word == strip(Get(item.fields, "word", <<>>))
             translation == strip(Get(item.fields, "translation",
                                      Get(item.fields, "trans", <<>>)))
         IN IF word # <<>> /\ translation # <<>>
            THEN <<CopyNonEmpty(<<"phonetic_uk", "phonetic_us", "phonetic", "pos",
                                  "definition", "exchange", "examples", "tags">>,
                                item.fields, Entry(word, translation))>>
            ELSE <<>>

\* a variant of json_map_item that yields nothing for a string value
json_map_item_objects_only(word, value) ==
    IF value.type = "dict"
    THEN LET translation == Get(value.fields, "translation",
                                Get(value.fields, "trans", <<>>))
         IN IF translation # <<>>
            THEN <<CopyPresent(<<"phonetic_uk", "phonetic_us", "pos", "definition">>,
                               value.fields, Entry(word, translation))>>
            ELSE <<>>
    ELSE <<>>

\* the entries one key of the flat-map form yields (one or none)
json_map_item(word, value) ==
    IF value.type = "str" THEN <<Entry(word, value.text)>>
    ELSE IF value.type = "dict"
    THEN LET translation == Get(value.fields, "translation",
                                Get(value.fields, "trans", <<>>))
         IN IF translation # <<>>
            THEN <<CopyPresent(<<"phonetic_uk", "phonetic_us", "pos", "definition">>,
                               value.fields, Entry(word, translation))>>
            ELSE <<>>
    ELSE <<>>

RECURSIVE json_array(_)
json_array(items) ==
    IF items = <<>> THEN <<>>
    ELSE json_array_item(Head(items)) \o json_array(Tail(items))

RECURSIVE json_map(_)
json_map(items) ==
    IF items = <<>> THEN <<>>
    ELSE json_map_item(Head(items).key, Head(items).value) \o json_map(Tail(items))

\* JSONParser.parse() on the document json.load returned
json_parse(data) ==
    IF data.form = "list" THEN Yielded(json_array(data.items))
    ELSE IF data.form = "dict" THEN Yielded(json_map(data.items))
    ELSE Yielded(<<>>)

\* the JSON documents: flat maps of up to MaxKeys keys, arrays of up to
\* MaxItems items, and a document that is neither
MaxKeys == 2
MaxItems == 2
Hello == <<"hello">>
World == <<"world">>
\* the translations of the two words, written in ASCII
NiHao == <<"nihao">>
ShiJie == <<"shijie">>
MapKeys == {Hello, World, <<>>}
MapValues ==
    {Str(NiHao), Str(ShiJie), Str(<<>>), Str(<<Blank>>), Other,
     Dict("trans" :> NiHao),
     Dict(("translation" :> <<>>) @@ ("trans" :> NiHao)),
     Dict("translation" :> <<Blank>>),
     Dict(("translation" :> NiHao) @@ ("pos" :> <<"n">>) @@ ("exchange" :> <<"x">>))}
ArrayItems ==
    {Dict(("word" :> Hello) @@ ("translation" :> NiHao)),
     Dict(("word" :> <<Blank>> \o World) @@ ("translation" :> ShiJie \o <<Blank>>)),
     Dict(("word" :> Hello) @@ ("trans" :> NiHao)),
     Dict(("word" :> <<>>) @@ ("translation" :> NiHao)),
     Dict(("word" :> Hello) @@ ("translation" :> <<Blank>>)),
     Dict("translation" :> NiHao),
     Dict(("word" :> Hello) @@ ("translation" :> <<>>) @@ ("trans" :> NiHao)),
     Dict(("word" :> Hello) @@ ("translation" :> NiHao) @@ ("phonetic" :> <<"x">>)
          @@ ("phonetic_uk" :> <<"y">>) @@ ("pos" :> <<>>)),
     Other}

JsonMaps ==
    {[kind |-> "json", form |-> "dict", items |-> items] :
        items \in {m \in TextsUpTo([key : MapKeys, value : MapValues], MaxKeys) :
                     \A i, j \in DOMAIN m : m[i].key = m[j].key => i = j}}
JsonArrays ==
    {[kind |-> "json", form |-> "list", items |-> items] :
        items \in TextsUpTo(ArrayItems, MaxItems)}
JsonDocuments ==
    JsonMaps \cup JsonArrays \cup {[kind |-> "json", form |-> "other", items |-> <<>>]}

\* ---- ECDICTParser.parse --------------------------------------------------
Digits == ("0" :> 0) @@ ("1" :> 1) @@ ("2" :> 2) @@ ("3" :> 3) @@ ("4" :> 4)
          @@ ("5" :> 5) @@ ("6" :> 6) @@ ("7" :> 7) @@ ("8" :> 8) @@ ("9" :> 9)

\* str.isdigit()
isdigit(s) == s # <<>> /\ \A i \in DOMAIN s : s[i] \in DOMAIN Digits

\* int(s) of a string of digits
RECURSIVE int(_)
int(s) ==
    IF s = <<>> THEN 0
    ELSE int(SubSeq(s, 1, Len(s) - 1)) * 10 + Digits[s[Len(s)]]

UpperCase == ("zk" :> "ZK") @@ ("cet4" :> "CET4")

\* str.upper()
upper(s) ==
    [i \in DOMAIN s |-> IF s[i] \in DOMAIN UpperCase THEN UpperCase[s[i]] ELSE s[i]]

\* _parse_tags(tag_str): `[t.strip().upper() for t in tag_str.split() if t.strip()]`
parse_tags(tag_str) ==
    LET pieces == SelectSeq(split(tag_str, Blank), LAMBDA t : t # <<>>)
        tags == [i \in DOMAIN pieces |-> upper(strip(pieces[i]))]
    IN IF tags # <<>> THEN Some(tags) ELSE None

\* `x = row.get(column, '').strip()`, `if x: entry[field] = x`
WithText(entry, field, row, column) ==
    LET x == strip(Get(row, column, <<>>))
    IN IF x # <<>> THEN Put(entry, field, x) ELSE entry

\* `x = row.get(column, '').strip()`, `if x and x.isdigit(): entry[field] = int(x)`
WithNumber(entry, field, row, column) ==
    LET x == strip(Get(row, column, <<>>))
    IN IF x # <<>> /\ isdigit(x) THEN Put(entry, field, int(x)) ELSE entry

\* `x = decode(row.get(column, ''))`, `if x: entry[field] = x`
WithOptional(entry, field, x) ==
    IF x.is = "some" THEN Put(entry, field, x.value) ELSE entry

\* the entries one row of the lexical CSV yields (one or none)
ecdict_row(row) ==
    LET word == strip(Get(row, "word", <<>>))
        translation == strip(Get(row, "translation", <<>>))
        e1 == WithText(Entry(word, translation), "phonetic_uk", row, "phonetic")
        e2 == WithText(e1, "definition", row, "definition")
        e3 == WithText(e2, "pos", row, "pos")
        e4 == WithNumber(e3, "collins_star", row, "collins")
        e5 == IF strip(Get(row, "oxford", <<>>)) = <<"1">>
              THEN Put(e4, "oxford_level", <<"core">>) ELSE e4
        e6 == WithOptional(e5, "tags", parse_tags(Get(row, "tag", <<>>)))
        e7 == WithNumber(e6, "bnc_rank", row, "bnc")
        e8 == WithNumber(e7, "frq_rank", row, "frq")
        e9 == WithOptional(e8, "exchange", parse_exchange(Get(row, "exchange", <<>>)))
    IN IF word = <<>> \/ translation = <<>> THEN <<>> ELSE <<e9>>

RECURSIVE ecdict_rows(_)
ecdict_rows(rows) ==
    IF rows = <<>> THEN <<>>
    ELSE ecdict_row(Head(rows)) \o ecdict_rows(Tail(rows))

\* ECDICTParser.parse() on the rows csv.DictReader returns
ecdict_parse(rows) == Yielded(ecdict_rows(rows))

\* lexical CSV files of up to MaxRows rows
MaxRows == 2
EcdictRows ==
    {("word" :> Hello) @@ ("translation" :> NiHao),
     ("word" :> <<Blank>> \o Hello) @@ ("translation" :> NiHao \o <<Blank>>)
        @@ ("phonetic" :> <<"x">>) @@ ("definition" :> <<"greeting">>)
        @@ ("pos" :> <<"n">>) @@ ("collins" :> <<"3">>) @@ ("oxford" :> <<"1">>)
        @@ ("tag" :> <<"zk", Blank, "cet4">>) @@ ("bnc" :> <<"1", "2">>)
        @@ ("frq" :> <<"7">>) @@ ("exchange" :> <<"p", ":", "went", "/", "d", ":", "gone">>),
     ("word" :> <<Blank>>) @@ ("translation" :> NiHao),
     ("word" :> Hello) @@ ("translation" :> <<>>),
     ("translation" :> NiHao) @@ ("phonetic" :> <<"x">>),
     ("word" :> World) @@ ("translation" :> ShiJie) @@ ("collins" :> <<"x">>)
        @@ ("oxford" :> <<"0">>) @@ ("tag" :> <<Blank>>) @@ ("exchange" :> <<"went">>)}
EcdictFiles ==
    {[kind |-> "ecdict", rows |-> rows] : rows \in TextsUpTo(EcdictRows, MaxRows)}

\* ---- CSVParser.parse -----------------------------------------------------
\* the column aliases; the Chinese aliases are written in pinyin
WORD_COLUMNS == {<<"word">>, <<"danci">>, <<"yingwen">>, <<"english">>}
TRANSLATION_COLUMNS == {<<"translation">>, <<"fanyi">>, <<"zhongwen">>,
                        <<"shiyi">>, <<"chinese">>, <<"meaning">>}
PHONETIC_COLUMNS == {<<"phonetic">>, <<"yinbiao">>, <<"pronunciation">>}
DEFINITION_COLUMNS == {<<"definition">>, <<"yingwen_shiyi">>,
                       <<"english_definition">>}

\* _detect_columns(headers): a later header of a kind replaces an earlier one
RECURSIVE detect_columns(_, _)
detect_columns(headers, mapping) ==
    IF headers = <<>> THEN mapping
    ELSE LET header == strip(lower(Head(headers)))
             kind == IF header \in WORD_COLUMNS THEN "word"
                     ELSE IF header \in TRANSLATION_COLUMNS THEN "translation"
                     ELSE IF header \in PHONETIC_COLUMNS THEN "phonetic"
                     ELSE IF header \in DEFINITION_COLUMNS THEN "definition"
                     ELSE ""
         IN detect_columns(Tail(headers),
                IF kind # "" THEN Put(mapping, kind, Head(headers)) ELSE mapping)

\* a cell of a csv.DictReader row: a text, or None where the line is short
NoneCell == [type |-> "none"]

\* `x = row.get(column, '').strip()`, `if x: entry[field] = x`; None has no
\* strip and raises AttributeError
csv_with_text(got, field, row, column) ==
    IF got.raised # "" \/ got.entries = <<>> THEN got
    ELSE LET cell == Get(row, column, Str(<<>>))
         IN IF cell.type = "none" THEN Raising("AttributeError")
            ELSE IF strip(cell.text) # <<>>
            THEN Yielded(<<Put(got.entries[1], field, strip(cell.text))>>)
            ELSE got

\* what one row of the generic CSV does: yields one entry or none, or raises
csv_row(row, column_mapping) ==
    LET w == Get(row, column_mapping["word"], Str(<<>>))
        tr == Get(row, column_mapping["translation"], Str(<<>>))
    IN IF w.type = "none" \/ tr.type = "none" THEN Raising("AttributeError")
       ELSE IF strip(w.text) = <<>> \/ strip(tr.text) = <<>> THEN Yielded(<<>>)
       ELSE LET e0 == Yielded(<<Entry(strip(w.text), strip(tr.text))>>)
                e1 == IF "phonetic" \in DOMAIN column_mapping
                      THEN csv_with_text(e0, "phonetic_uk", row,
                                         column_mapping["phonetic"])
                      ELSE e0
            IN IF "definition" \in DOMAIN column_mapping
               THEN csv_with_text(e1, "definition", row,
                                  column_mapping["definition"])
               ELSE e1

\* `for row in reader:` up to the end of the file or the first row that raises
RECURSIVE csv_rows(_, _)
csv_rows(rows, column_mapping) ==
    IF rows = <<>> THEN Yielded(<<>>)
    ELSE LET first == csv_row(Head(rows), column_mapping)
         IN IF first.raised # "" THEN first
            ELSE LET rest == csv_rows(Tail(rows), column_mapping)
                 IN [raised |-> rest.raised,
                     entries |-> first.entries \o rest.entries]

\* CSVParser.parse() on the field names and rows csv.DictReader returns; an
\* empty file has no field names
csv_parse(fieldnames, rows) ==
    LET column_mapping == IF fieldnames # <<>>
                          THEN detect_columns(fieldnames, <<>>) ELSE <<>>
    IN IF "word" \notin DOMAIN column_mapping
          \/ "translation" \notin DOMAIN column_mapping
       THEN Raising("ValueError")
       ELSE csv_rows(rows, column_mapping)

\* generic CSV files: a header and up to MaxRows rows of cells
Headers == {<<>>, <<<<"word">>, <<"translation">>>>,
            <<<<"Word">>, <<Blank, "Meaning", Blank>>>>,
            <<<<"danci">>, <<"fanyi">>, <<"definition">>>>,
            <<<<"word">>, <<"english">>, <<"chinese">>>>,
            <<<<"english">>, <<"yinbiao">>>>,
            <<<<"translation">>, <<"note">>>>}
Cells == {<<Blank>>, <<Blank>> \o Hello}

\* csv.DictReader: dict(zip(fieldnames, cells)), and None (restval) under
\* the field names a short line has no cell for
RowOf(fieldnames, cells) ==
    [h \in {fieldnames[i] : i \in DOMAIN fieldnames} |->
        LET last == CHOOSE i \in DOMAIN fieldnames :
                       fieldnames[i] = h /\ \A j \in DOMAIN fieldnames :
                                               fieldnames[j] = h => j <= i
        IN IF last \in DOMAIN cells THEN Str(cells[last]) ELSE NoneCell]

\* the lines of a file under a header: all cells, or the last one missing
LinesUnder(h) ==
    [1..Len(h) -> Cells]
    \cup (IF Len(h) >= 2 THEN [1..(Len(h) - 1) -> Cells] ELSE {})

CsvFiles ==
    UNION {{[kind |-> "csv", fieldnames |-> h,
             rows |-> [i \in DOMAIN lines |-> RowOf(h, lines[i])]] :
               lines \in TextsUpTo(LinesUnder(h), MaxRows)} : h \in Headers}

\* ---- MDXParser.parse -----------------------------------------------------
\* markup is a text whose symbols are characters ("<", ">", "[", "]", "/"),
\* HTML entities, blanks and runs of letters
Entities == ("&nbsp;" :> Blank) @@ ("&lt;" :> "<") @@ ("&gt;" :> ">")
            @@ ("&amp;" :> "&") @@ ("&quot;" :> "\"")

\* re.sub(r'<[^>]+>', ' ', text)
RECURSIVE WithoutTags(_)
WithoutTags(text) ==
    IF text = <<>> THEN <<>>
    ELSE LET close == Find(Tail(text), ">")
         IN IF Head(text) = "<" /\ close >= 2
            THEN <<Blank>> \o WithoutTags(SubSeq(text, close + 2, Len(text)))
            ELSE <<Head(text)>> \o WithoutTags(Tail(text))

\* the five text.replace(entity, character) calls
WithoutEntities(text) ==
    [i \in DOMAIN text |->
        IF text[i] \in DOMAIN Entities THEN Entities[text[i]] ELSE text[i]]

\* re.sub(r'\s+', ' ', text)
RECURSIVE SingleBlanks(_)
SingleBlanks(text) ==
    IF Len(text) < 2 THEN text
    ELSE IF text[1] = Blank /\ text[2] = Blank THEN SingleBlanks(Tail(text))
    ELSE <<Head(text)>> \o SingleBlanks(Tail(text))

\* _clean_html(html_content)
clean_html(html_content) ==
    IF html_content = <<>> THEN <<>>
    ELSE strip(SingleBlanks(WithoutEntities(WithoutTags(html_content))))

\* a run of letters that holds a character of the IPA set
IpaRuns == {"ipa"}
FullWidthOpen == "[["
FullWidthClose == "]]"

\* re.search of `open([^close]+)close`: group 1 of the leftmost match
RECURSIVE Search(_, _, _)
Search(content, open, close) ==
    IF content = <<>> THEN None
    ELSE LET end == Find(Tail(content), close)
         IN IF Head(content) = open /\ end >= 2
            THEN Some(SubSeq(content, 2, end))
            ELSE Search(Tail(content), open, close)

\* `for pattern in patterns:` with the first match of each pattern only
RECURSIVE PhoneticOf(_, _)
PhoneticOf(content, patterns) ==
    IF patterns = <<>> THEN None
    ELSE LET match == Search(content, Head(patterns)[1], Head(patterns)[2])
             phonetic == strip(match.value)
         IN IF match.is = "some" /\ \E i \in DOMAIN phonetic : phonetic[i] \in IpaRuns
            THEN Some(phonetic)
            ELSE PhoneticOf(content, Tail(patterns))

\* _extract_phonetic(content)
extract_phonetic(content) ==
    PhoneticOf(content, <<<<"[", "]">>, <<"/", "/">>,
                          <<FullWidthOpen, FullWidthClose>>>>)

TRANSLATION_LIMIT == 2000

\* the entries one item of the container yields (one or none); an item that
\* cannot be decoded raises inside the try block and is skipped
mdx_item(item) ==
    LET word == strip(item.word)
        translation == clean_html(item.content)
        limited == SubSeq(translation, 1, Min(Len(translation), TRANSLATION_LIMIT))
    IN IF ~item.decodable \/ word = <<>> \/ translation = <<>> THEN <<>>
       ELSE <<WithOptional(Entry(word, limited), "phonetic_uk",
                           extract_phonetic(item.content))>>

RECURSIVE mdx_items(_)
mdx_items(items) ==
    IF items = <<>> THEN <<>>
    ELSE mdx_item(Head(items)) \o mdx_items(Tail(items))

\* MDXParser.parse() on the items of the container; a container that cannot
\* be loaded raises before anything is yielded
mdx_parse(loadable, items) ==
    IF loadable THEN Yielded(mdx_items(items)) ELSE Raising("ValueError")

\* containers of up to MaxRows items
Item(word, content, decodable) ==
    [word |-> word, content |-> content, decodable |-> decodable]
MdxItems ==
    {Item(Hello, <<"<", "b", ">", "nihao", "<", "/", "b", ">">>, TRUE),
     Item(<<Blank>> \o Hello, <<"[", "ipa", "]", Blank, Blank, "nihao">>, TRUE),
     Item(Hello, <<"[", "x", "]", "[", "ipa", "]", "nihao", "/", "ipa", "/">>, TRUE),
     Item(Hello, <<"[", "x", "]", "[", "ipa", "]", "nihao">>, TRUE),
     Item(Hello, <<"&nbsp;", "<", "br", ">">>, TRUE),
     Item(<<Blank>>, <<"nihao">>, TRUE),
     Item(Hello, <<>>, TRUE),
     Item(World, <<"&lt;", "shijie", "&gt;", FullWidthOpen, "ipa", FullWidthClose>>, TRUE),
     Item(World, <<"shijie">>, FALSE)}
MdxFiles ==
    {[kind |-> "mdx", loadable |-> l, items |-> items] :
        l \in BOOLEAN, items \in TextsUpTo(MdxItems, MaxRows)}

\* ---- sources of the parser operations ------------------------------------
\* largest count get_preview is called with
MaxPreview == 2
NoSource == [kind |-> "none"]
Sources ==
    Files \cup ExchangeStrings \cup JsonDocuments \cup EcdictFiles \cup CsvFiles
    \cup MdxFiles

\* ---- log entries -------------------------------------------------------
Event(op, p, count) == [op |-> op, progress |-> p, entry_count |-> count]
Logged(t, op, p, count) == log' = [log EXCEPT ![t] = Append(@, Event(op, p, count))]

\* the importer as constructed: empty store, empty registry, nothing called
Constructed ==
    /\ dictionaries = << >>
    /\ entries = << >>
    /\ persisted = << >>
    /\ nextId = 1
    /\ import_tasks = << >>
    /\ pc = [t \in Threads |-> IF req[t] = NoRequest THEN "off" ELSE "idle"]
    /\ loopOwner = 0
    /\ dictionary_id = [t \in Threads |-> 0]
    /\ total_count = [t \in Threads |-> 0]
    /\ remaining = [t \in Threads |-> req[t].n]
    /\ batch = [t \in Threads |-> 0]
    /\ imported_count = [t \in Threads |-> 0]
    /\ last_progress_update = [t \in Threads |-> 0]
    /\ progress = [t \in Threads |-> Zero]
    /\ error_msg = [t \in Threads |-> ""]
    /\ cause = [t \in Threads |-> [kind |-> "none", at |-> ""]]
    /\ faultsLeft = MaxFaults
    /\ ptarget = 0
    /\ presult = NoStatus
    /\ dpc = "idle"
    /\ dtarget = 0
    /\ dresult = 0
    /\ dreturn = FALSE
    /\ batchCalls = [t \in Threads |-> 0]
    /\ batches = [t \in Threads |-> <<>>]
    /\ log = [t \in Threads |-> << >>]
    /\ createCalls = [t \in Threads |-> 0]

\* the requests of a behaviour of the importer
Requested ==
    \/ /\ \E r \in SoloRequests : req = (1 :> r) @@ (2 :> NoRequest)
       /\ ppc = "off"
    \/ /\ \E r \in PairRequests({"a"}, SmallSizes) :
             req = (1 :> r) @@ (2 :> NoRequest)
       /\ ppc = "idle"
    \/ /\ ppc = "off"
       /\ \E r1 \in PairRequests({"a"}, SmallSizes),
             r2 \in PairRequests(Names, {1}) \cup MissingRequests :
             req = (1 :> r1) @@ (2 :> r2)

Init ==
    /\ Requested
    /\ Constructed
    /\ source = NoSource /\ phase = "off" /\ result = <<>> /\ pulled = 0

\* a parser operation on a source, next to an importer that is not called
ParserInit ==
    /\ req = [t \in Threads |-> NoRequest] /\ ppc = "off"
    /\ Constructed
    /\ source \in Sources
    /\ phase = "ready" /\ result = <<>> /\ pulled = 0

Goto(t, label) == pc' = [pc EXCEPT ![t] = label]

\* an exception `msg` raised inside the try block of import_dictionary
Caught(t, msg, why) ==
    /\ Goto(t, "fail_db")
    /\ error_msg' = [error_msg EXCEPT ![t] = msg]
    /\ cause' = [cause EXCEPT ![t] = [kind |-> why, at |-> pc[t]]]

\* an exception `msg` that leaves import_dictionary without being recorded
Escapes(t, msg, why) ==
    /\ Goto(t, "raised")
    /\ error_msg' = [error_msg EXCEPT ![t] = msg]
    /\ cause' = [cause EXCEPT ![t] = [kind |-> why, at |-> pc[t]]]

\* ---- HTTP import handler (backend/main.py) -----------------------------
\* The handler is a coroutine without suspension points: the event loop runs
\* one handler at a time (loopOwner), next to the worker threads.

\* `if not file_path.exists()` ... `if file_info['format'] == 'unknown'`
HttpCheckFile(t) ==
    /\ pc[t] = "idle" /\ req[t].via = "http" /\ loopOwner = 0
    /\ IF req[t].file = "missing" \/ FormatOf(req[t].file) = "unknown"
       THEN Goto(t, "rejected") /\ UNCHANGED loopOwner
       ELSE Goto(t, "http_check_name") /\ loopOwner' = t
    /\ UNCHANGED <<store, import_tasks, req, parsing, poller, locals, faultsLeft, deleter, history>>

\* `existing = importer.db.get_dictionary_by_name(request.name)`
HttpCheckName(t) ==
    /\ pc[t] = "http_check_name"
    /\ IF get_dictionary_by_name(req[t].name) # {}
       THEN Goto(t, "rejected") /\ loopOwner' = 0
       ELSE Goto(t, "http_create") /\ UNCHANGED loopOwner
    /\ UNCHANGED <<store, import_tasks, req, parsing, poller, locals, faultsLeft, deleter, history>>

\* `dictionary_id = importer.db.create_dictionary(..., import_status='pending')`
HttpCreate(t) ==
    /\ pc[t] = "http_create"
    /\ create_dictionary(nextId, req[t].name, FormatOf(req[t].file), "pending")
    /\ dictionary_id' = [dictionary_id EXCEPT ![t] = nextId]
    /\ createCalls' = [createCalls EXCEPT ![t] = @ + 1]
    /\ Goto(t, "http_delete")
    /\ UNCHANGED <<import_tasks, req, parsing, poller, loopOwner, total_count, remaining, batch,
                   imported_count, last_progress_update, progress, error_msg,
                   cause, faultsLeft, deleter, batchCalls, batches, log>>

\* `importer.db.delete_dictionary(dictionary_id)`, then the import is handed
\* to a worker (background_tasks.add_task) and the handler returns
HttpDelete(t) ==
    /\ pc[t] = "http_delete"
    /\ db_delete_dictionary(dictionary_id[t])
    /\ Goto(t, "get_file_info")
    /\ loopOwner' = 0
    /\ UNCHANGED <<import_tasks, req, parsing, poller, locals, faultsLeft, deleter, history>>

\* ---- DictionaryImporter.import_dictionary ------------------------------
\* a direct call (import_dictionary or import_dictionary_async)
Call(t) ==
    /\ pc[t] = "idle" /\ req[t].via = "sync"
    /\ Goto(t, "get_file_info")
    /\ UNCHANGED <<store, import_tasks, req, parsing, poller, loopOwner, locals, faultsLeft,
                   deleter, history>>

\* a variant of GetFileInfo that does not look whether the path exists
GetFileInfoNoCheck(t) ==
    /\ pc[t] = "get_file_info"
    /\ Goto(t, "check_name") /\ UNCHANGED <<error_msg, cause>>
    /\ UNCHANGED <<store, import_tasks, req, parsing, poller, loopOwner, dictionary_id,
                   total_count, remaining, batch, imported_count,
                   last_progress_update, progress, faultsLeft, deleter, history>>

\* `file_info = DictionaryParser.get_file_info(file_path)`
GetFileInfo(t) ==
    /\ pc[t] = "get_file_info"
    /\ IF req[t].file = "missing"
       THEN Escapes(t, "file not found", "file")
       ELSE Goto(t, "check_name") /\ UNCHANGED <<error_msg, cause>>
    /\ UNCHANGED <<store, import_tasks, req, parsing, poller, loopOwner, dictionary_id,
                   total_count, remaining, batch, imported_count,
                   last_progress_update, progress, faultsLeft, deleter, history>>

\* a variant of CheckName that lets every name through
CheckNameNoCheck(t) ==
    /\ pc[t] = "check_name"
    /\ Goto(t, "create") /\ UNCHANGED <<error_msg, cause>>
    /\ UNCHANGED <<store, import_tasks, req, parsing, poller, loopOwner, dictionary_id,
                   total_count, remaining, batch, imported_count,
                   last_progress_update, progress, faultsLeft, deleter, history>>

\* `existing = self.db.get_dictionary_by_name(name)`; `if existing: raise`
CheckName(t) ==
    /\ pc[t] = "check_name"
    /\ IF get_dictionary_by_name(req[t].name) # {}
       THEN Escapes(t, "name exists", "conflict")
       ELSE Goto(t, "create") /\ UNCHANGED <<error_msg, cause>>
    /\ UNCHANGED <<store, import_tasks, req, parsing, poller, loopOwner, dictionary_id,
                   total_count, remaining, batch, imported_count,
                   last_progress_update, progress, faultsLeft, deleter, history>>

\* `dictionary_id = self.db.create_dictionary(..., import_status='importing')`
CreateDictionary(t) ==
    /\ pc[t] = "create"
    /\ create_dictionary(nextId, req[t].name, FormatOf(req[t].file), "importing")
    /\ dictionary_id' = [dictionary_id EXCEPT ![t] = nextId]
    /\ createCalls' = [createCalls EXCEPT ![t] = @ + 1]
    /\ Logged(t, "db", Zero, 0)
    /\ Goto(t, "register")
    /\ UNCHANGED <<import_tasks, req, parsing, poller, loopOwner, total_count, remaining, batch,
                   imported_count, last_progress_update, progress, error_msg,
                   cause, faultsLeft, deleter, batchCalls, batches>>

\* `self._import_tasks[dictionary_id] = {...}`
RegisterTask(t) ==
    /\ pc[t] = "register"
    /\ import_tasks' = [i \in DOMAIN import_tasks \cup {dictionary_id[t]} |->
          IF i = dictionary_id[t]
          THEN [status |-> "importing", progress |-> Zero, entry_count |-> 0,
                error |-> ""]
          ELSE import_tasks[i]]
    /\ Logged(t, "task", Zero, 0)
    /\ Goto(t, "create_parser")
    /\ UNCHANGED <<store, req, parsing, poller, loopOwner, locals, faultsLeft, deleter,
                   persisted, batchCalls, batches, createCalls>>

\* `parser = DictionaryParser.create_parser(file_path)`,
\* `total_count = parser.get_total_count()`, the loop variables
CreateParser(t) ==
    /\ pc[t] = "create_parser"
    /\ IF FormatOf(req[t].file) = "unknown"
       THEN Caught(t, "unsupported format", "parser") /\ UNCHANGED total_count
       ELSE /\ total_count' = [total_count EXCEPT ![t] = req[t].total]
            /\ Goto(t, "parse") /\ UNCHANGED <<error_msg, cause>>
    /\ batch' = [batch EXCEPT ![t] = 0]
    /\ imported_count' = [imported_count EXCEPT ![t] = 0]
    /\ last_progress_update' = [last_progress_update EXCEPT ![t] = 0]
    /\ UNCHANGED <<store, import_tasks, req, parsing, poller, loopOwner, dictionary_id,
                   remaining, progress, faultsLeft, deleter, history>>

\* the list `batch` as positions of the parser's sequence: `batch.append(entry)`
\* makes it the last len(batch) entries the parser has yielded
BatchPassed(t) ==
    LET yielded == req[t].n - remaining[t]
    IN [first |-> yielded - batch[t] + 1, last |-> yielded]

\* `for entry in parser.parse(): batch.append(entry)` up to the next
\* `if len(batch) >= self.BATCH_SIZE` that holds, or to the end of the source
FillBatch(t) ==
    /\ pc[t] = "parse"
    /\ LET k == Min(remaining[t], BATCH_SIZE - batch[t])
           len == batch[t] + k
       IN /\ batch' = [batch EXCEPT ![t] = len]
          /\ remaining' = [remaining EXCEPT ![t] = @ - k]
          /\ Goto(t, IF BatchFull(len) THEN "add_batch"
                     ELSE IF NeedsFlush(len) THEN "flush" ELSE "complete_db")
    /\ UNCHANGED <<store, import_tasks, req, parsing, poller, loopOwner, dictionary_id,
                   total_count, imported_count, last_progress_update, progress,
                   error_msg, cause, faultsLeft, deleter, history>>

\* a variant of AddBatch without `batch = []`
AddBatchKeepsBatch(t) ==
    /\ pc[t] = "add_batch"
    /\ add_dictionary_entries_batch(dictionary_id[t], batch[t])
    /\ batchCalls' = [batchCalls EXCEPT ![t] = @ + 1]
    /\ batches' = [batches EXCEPT ![t] = Append(@, BatchPassed(t))]
    /\ LET imported == imported_count[t] + batch[t]
       IN /\ imported_count' = [imported_count EXCEPT ![t] = imported]
          /\ IF ProgressDue(imported, last_progress_update[t])
             THEN /\ progress' = [progress EXCEPT ![t] =
                                    ProgressValue(imported, total_count[t])]
                  /\ Goto(t, "update_progress_db")
             ELSE /\ UNCHANGED progress
                  /\ Goto(t, "parse")
    /\ UNCHANGED batch
    /\ UNCHANGED <<import_tasks, req, parsing, poller, loopOwner, dictionary_id, total_count,
                   remaining, last_progress_update, error_msg, cause,
                   faultsLeft, deleter, log, createCalls>>

\* `self.db.add_dictionary_entries_batch(dictionary_id, batch)`,
\* `imported_count += len(batch)`, `batch = []`, the progress test
AddBatch(t) ==
    /\ pc[t] = "add_batch"
    /\ add_dictionary_entries_batch(dictionary_id[t], batch[t])
    /\ batchCalls' = [batchCalls EXCEPT ![t] = @ + 1]
    /\ batches' = [batches EXCEPT ![t] = Append(@, BatchPassed(t))]
    /\ LET imported == imported_count[t] + batch[t]
       IN /\ imported_count' = [imported_count EXCEPT ![t] = imported]
          /\ IF ProgressDue(imported, last_progress_update[t])
             THEN /\ progress' = [progress EXCEPT ![t] =
                                    ProgressValue(imported, total_count[t])]
                  /\ Goto(t, "update_progress_db")
             ELSE /\ UNCHANGED progress
                  /\ Goto(t, "parse")
    /\ batch' = [batch EXCEPT ![t] = 0]
    /\ UNCHANGED <<import_tasks, req, parsing, poller, loopOwner, dictionary_id, total_count,
                   remaining, last_progress_update, error_msg, cause,
                   faultsLeft, deleter, log, createCalls>>

\* _update_progress: `self.db.update_import_progress(..., status='importing')`
UpdateProgressDb(t) ==
    /\ pc[t] = "update_progress_db"
    /\ update_import_progress(dictionary_id[t], progress[t], "importing",
                              imported_count[t], "")
    /\ Logged(t, "db", progress[t], imported_count[t])
    /\ Goto(t, "update_progress_task")
    /\ UNCHANGED <<import_tasks, req, parsing, poller, loopOwner, locals, faultsLeft, deleter,
                   persisted, batchCalls, batches, createCalls>>

\* a variant of UpdateProgressTask that reports the estimated total
UpdateProgressTaskEstimate(t) ==
    /\ pc[t] = "update_progress_task"
    /\ IF dictionary_id[t] \in DOMAIN import_tasks
       THEN /\ import_tasks' = [import_tasks EXCEPT ![dictionary_id[t]] =
                 [@ EXCEPT !.progress = progress[t],
                           !.entry_count = total_count[t]]]
            /\ Logged(t, "task", progress[t], total_count[t])
       ELSE UNCHANGED <<import_tasks, log>>
    /\ last_progress_update' = [last_progress_update EXCEPT ![t] = imported_count[t]]
    /\ Goto(t, IF req[t].cb THEN "callback" ELSE "parse")
    /\ UNCHANGED <<store, req, parsing, poller, loopOwner, dictionary_id, total_count, remaining,
                   batch, imported_count, progress, error_msg, cause,
                   faultsLeft, deleter, persisted, batchCalls, batches, createCalls>>

\* _update_progress: `if dictionary_id in self._import_tasks: ...update(...)`,
\* then `last_progress_update = imported_count`
UpdateProgressTask(t) ==
    /\ pc[t] = "update_progress_task"
    /\ IF dictionary_id[t] \in DOMAIN import_tasks
       THEN /\ import_tasks' = [import_tasks EXCEPT ![dictionary_id[t]] =
                 [@ EXCEPT !.progress = progress[t],
                           !.entry_count = imported_count[t]]]
            /\ Logged(t, "task", progress[t], imported_count[t])
       ELSE UNCHANGED <<import_tasks, log>>
    /\ last_progress_update' = [last_progress_update EXCEPT ![t] = imported_count[t]]
    /\ Goto(t, IF req[t].cb THEN "callback" ELSE "parse")
    /\ UNCHANGED <<store, req, parsing, poller, loopOwner, dictionary_id, total_count, remaining,
                   batch, imported_count, progress, error_msg, cause,
                   faultsLeft, deleter, persisted, batchCalls, batches, createCalls>>

\* `progress_callback(dictionary_id, progress, imported_count)` returns
Callback(t) ==
    /\ pc[t] = "callback"
    /\ Logged(t, "callback", progress[t], imported_count[t])
    /\ Goto(t, "parse")
    /\ UNCHANGED <<store, import_tasks, req, parsing, poller, loopOwner, locals, faultsLeft,
                   deleter, persisted, batchCalls, batches, createCalls>>

\* `if batch: self.db.add_dictionary_entries_batch(...)`, `imported_count += ...`
Flush(t) ==
    /\ pc[t] = "flush"
    /\ add_dictionary_entries_batch(dictionary_id[t], batch[t])
    /\ batchCalls' = [batchCalls EXCEPT ![t] = @ + 1]
    /\ batches' = [batches EXCEPT ![t] = Append(@, BatchPassed(t))]
    /\ imported_count' = [imported_count EXCEPT ![t] = @ + batch[t]]
    /\ Goto(t, "complete_db")
    /\ UNCHANGED <<import_tasks, req, parsing, poller, loopOwner, dictionary_id, total_count,
                   remaining, batch, last_progress_update, progress, error_msg,
                   cause, faultsLeft, deleter, log, createCalls>>

\* `self.db.update_import_progress(id, progress=1.0, status='completed', ...)`
CompleteDb(t) ==
    /\ pc[t] = "complete_db"
    /\ update_import_progress(dictionary_id[t], One, "completed",
                              imported_count[t], "")
    /\ Logged(t, "db", One, imported_count[t])
    /\ Goto(t, "complete_task")
    /\ UNCHANGED <<import_tasks, req, parsing, poller, loopOwner, locals, faultsLeft, deleter,
                   persisted, batchCalls, batches, createCalls>>

\* `self._import_tasks[dictionary_id].update({'status': 'completed', ...})`
CompleteTask(t) ==
    /\ pc[t] = "complete_task"
    /\ IF dictionary_id[t] \in DOMAIN import_tasks
       THEN /\ import_tasks' = [import_tasks EXCEPT ![dictionary_id[t]] =
                 [@ EXCEPT !.status = "completed", !.progress = One,
                           !.entry_count = imported_count[t]]]
            /\ Logged(t, "task", One, imported_count[t])
            /\ Goto(t, "elapsed") /\ UNCHANGED <<error_msg, cause>>
       ELSE /\ Caught(t, "KeyError", "registry")
            /\ UNCHANGED <<import_tasks, log>>
    /\ UNCHANGED <<store, req, parsing, poller, loopOwner, dictionary_id, total_count, remaining,
                   batch, imported_count, last_progress_update, progress,
                   faultsLeft, deleter, persisted, batchCalls, batches, createCalls>>

\* `elapsed = time.time() - self._import_tasks[dictionary_id]['start_time']`,
\* and `return dictionary_id` when no callback was given
Elapsed(t) ==
    /\ pc[t] = "elapsed"
    /\ IF dictionary_id[t] \in DOMAIN import_tasks
       THEN /\ Goto(t, IF req[t].cb THEN "final_callback" ELSE "returned")
            /\ UNCHANGED <<error_msg, cause>>
       ELSE Caught(t, "KeyError", "registry")
    /\ UNCHANGED <<store, import_tasks, req, parsing, poller, loopOwner, dictionary_id,
                   total_count, remaining, batch, imported_count,
                   last_progress_update, progress, faultsLeft, deleter, history>>

\* `progress_callback(dictionary_id, 1.0, imported_count)` returns,
\* `return dictionary_id`
FinalCallback(t) ==
    /\ pc[t] = "final_callback"
    /\ Logged(t, "callback", One, imported_count[t])
    /\ Goto(t, "returned")
    /\ UNCHANGED <<store, import_tasks, req, parsing, poller, loopOwner, locals, faultsLeft,
                   deleter, persisted, batchCalls, batches, createCalls>>

\* except: `self.db.update_import_progress(id, progress=0.0, status='failed',
\* error=error_msg)`
FailDb(t) ==
    /\ pc[t] = "fail_db"
    /\ update_import_progress(dictionary_id[t], Zero, "failed", NoCount,
                              error_msg[t])
    /\ Logged(t, "db", Zero, NoCount)
    /\ Goto(t, "fail_task")
    /\ UNCHANGED <<import_tasks, req, parsing, poller, loopOwner, locals, faultsLeft, deleter,
                   persisted, batchCalls, batches, createCalls>>

\* except: `self._import_tasks[dictionary_id].update({'status': 'failed',
\* 'error': error_msg})`, `raise`
FailTask(t) ==
    /\ pc[t] = "fail_task"
    /\ IF dictionary_id[t] \in DOMAIN import_tasks
       THEN /\ import_tasks' = [import_tasks EXCEPT ![dictionary_id[t]] =
                 [@ EXCEPT !.status = "failed", !.error = error_msg[t]]]
            /\ Goto(t, "reraised") /\ UNCHANGED <<error_msg, cause>>
       ELSE /\ Escapes(t, "KeyError", "registry")
            /\ UNCHANGED import_tasks
    /\ UNCHANGED <<store, req, parsing, poller, loopOwner, dictionary_id, total_count, remaining,
                   batch, imported_count, last_progress_update, progress,
                   faultsLeft, deleter, history>>

\* ---- calls that raise --------------------------------------------------
DbCallsBeforeTry == {"check_name", "create"}
DbCallsInTry == {"add_batch", "update_progress_db", "flush", "complete_db"}

\* a storage gateway call of import_dictionary raises
StorageRaises(t) ==
    /\ faultsLeft > 0
    /\ faultsLeft' = faultsLeft - 1
    /\ \/ pc[t] \in DbCallsBeforeTry /\ Escapes(t, "storage error", "storage")
       \/ pc[t] \in DbCallsInTry /\ Caught(t, "storage error", "storage")
       \/ pc[t] = "fail_db" /\ Escapes(t, "storage error", "storage")
    /\ UNCHANGED <<store, import_tasks, req, parsing, poller, loopOwner, dictionary_id,
                   total_count, remaining, batch, imported_count,
                   last_progress_update, progress, deleter, history>>

\* parser.parse() raises while the source is read
ParserRaises(t) ==
    /\ faultsLeft > 0
    /\ pc[t] = "parse"
    /\ faultsLeft' = faultsLeft - 1
    /\ Caught(t, "parse error", "parser")
    /\ UNCHANGED <<store, import_tasks, req, parsing, poller, loopOwner, dictionary_id,
                   total_count, remaining, batch, imported_count,
                   last_progress_update, progress, deleter, history>>

\* the progress callback raises
CallbackRaises(t) ==
    /\ faultsLeft > 0
    /\ pc[t] \in {"callback", "final_callback"}
    /\ faultsLeft' = faultsLeft - 1
    /\ Caught(t, "callback error", "callback")
    /\ UNCHANGED <<store, import_tasks, req, parsing, poller, loopOwner, dictionary_id,
                   total_count, remaining, batch, imported_count,
                   last_progress_update, progress, deleter, history>>

\* ---- DictionaryImporter.delete_dictionary ------------------------------
\* `result = self.db.delete_dictionary(dictionary_id)`
DeleteDb(id) ==
    /\ dpc = "idle"
    /\ id \in DOMAIN entries
    /\ dresult' = AffectedBy(id)
    /\ db_delete_dictionary(id)
    /\ dtarget' = id
    /\ dpc' = "db_deleted"
    /\ UNCHANGED <<import_tasks, req, parsing, poller, pc, loopOwner, locals, faultsLeft,
                   dreturn, history>>

\* a variant of DeleteTask that empties the registry and reports success
DeleteTaskClearsAll ==
    /\ dpc = "db_deleted"
    /\ import_tasks' = [i \in {} |-> import_tasks[i]]
    /\ dreturn' = TRUE
    /\ dpc' = "done"
    /\ UNCHANGED <<store, req, parsing, poller, pc, loopOwner, locals, faultsLeft, dtarget,
                   dresult, history>>

\* `if dictionary_id in self._import_tasks: del ...`, `return result > 0`
DeleteTask ==
    /\ dpc = "db_deleted"
    /\ import_tasks' = [i \in DOMAIN import_tasks \ {dtarget} |-> import_tasks[i]]
    /\ dreturn' = (dresult > 0)
    /\ dpc' = "done"
    /\ UNCHANGED <<store, req, parsing, poller, pc, loopOwner, locals, faultsLeft, dtarget,
                   dresult, history>>

\* ---- DictionaryImporter.get_import_status ------------------------------
NoRecord == [name |-> ""]

\* the record of a dictionary, or nothing when the store has none
get_dictionary_by_id(id) ==
    IF id \in DOMAIN dictionaries THEN dictionaries[id] ELSE NoRecord

\* `if dictionary_id in self._import_tasks:`
PollCheck(id) ==
    /\ ppc = "idle"
    /\ ptarget' = id
    /\ ppc' = IF id \in DOMAIN import_tasks THEN "found" ELSE "db"
    /\ UNCHANGED <<store, import_tasks, req, parsing, pc, loopOwner, locals, faultsLeft,
                   deleter, presult, history>>

\* `return self._import_tasks[dictionary_id]`
PollRead ==
    /\ ppc = "found"
    /\ presult' = IF ptarget \in DOMAIN import_tasks
                  THEN TaskStatus(import_tasks[ptarget])
                  ELSE KeyErrorRaised
    /\ ppc' = "done"
    /\ UNCHANGED <<store, import_tasks, req, parsing, pc, loopOwner, locals, faultsLeft,
                   deleter, ptarget, history>>

\* `dictionary = self.db.get_dictionary_by_id(dictionary_id)`,
\* `if dictionary: return {...}`, `return None`
PollDb ==
    /\ ppc = "db"
    /\ presult' = IF get_dictionary_by_id(ptarget) # NoRecord
                  THEN RecordStatus(get_dictionary_by_id(ptarget))
                  ELSE NoStatus
    /\ ppc' = "done"
    /\ UNCHANGED <<store, import_tasks, req, parsing, pc, loopOwner, locals, faultsLeft,
                   deleter, ptarget, history>>

\* ---- parser operations ----------------------------------------------------
\* detect_format(file_path), called once and once again on the same file
DetectFormat ==
    /\ source.kind = "file"
    /\ phase \in {"ready", "detected"}
    /\ result' = detect_format(source)
    /\ phase' = IF phase = "ready" THEN "detected" ELSE "redetected"
    /\ UNCHANGED <<store, import_tasks, req, pc, loopOwner, locals, faultsLeft,
                   deleter, poller, history, source, pulled>>

\* ECDICTParser._parse_exchange(exchange_str)
ParseExchange ==
    /\ source.kind = "exchange"
    /\ phase = "ready"
    /\ result' = parse_exchange(source.text)
    /\ phase' = "done"
    /\ UNCHANGED <<store, import_tasks, req, pc, loopOwner, locals, faultsLeft,
                   deleter, poller, history, source, pulled>>

\* list(JSONParser(file).parse())
ParseJson ==
    /\ source.kind = "json"
    /\ phase = "ready"
    /\ result' = json_parse(source)
    /\ phase' = "done"
    /\ UNCHANGED <<store, import_tasks, req, pc, loopOwner, locals, faultsLeft,
                   deleter, poller, history, source, pulled>>

\* list(ECDICTParser(file).parse())
ParseEcdict ==
    /\ source.kind = "ecdict"
    /\ phase = "ready"
    /\ result' = ecdict_parse(source.rows)
    /\ phase' = "done"
    /\ UNCHANGED <<store, import_tasks, req, pc, loopOwner, locals, faultsLeft,
                   deleter, poller, history, source, pulled>>

\* list(CSVParser(file).parse())
ParseCsv ==
    /\ source.kind = "csv"
    /\ phase = "ready"
    /\ result' = csv_parse(source.fieldnames, source.rows)
    /\ phase' = "done"
    /\ UNCHANGED <<store, import_tasks, req, pc, loopOwner, locals, faultsLeft,
                   deleter, poller, history, source, pulled>>

\* list(MDXParser(file).parse())
ParseMdx ==
    /\ source.kind = "mdx"
    /\ phase = "ready"
    /\ result' = mdx_parse(source.loadable, source.items)
    /\ phase' = "done"
    /\ UNCHANGED <<store, import_tasks, req, pc, loopOwner, locals, faultsLeft,
                   deleter, poller, history, source, pulled>>

\* ---- DictionaryParser.get_preview ----------------------------------------
\* what parse() yields from the source, whichever parser reads it
Parsed(src) ==
    IF src.kind = "json" THEN json_parse(src)
    ELSE IF src.kind = "ecdict" THEN ecdict_parse(src.rows)
    ELSE IF src.kind = "csv" THEN csv_parse(src.fieldnames, src.rows)
    ELSE mdx_parse(src.loadable, src.items)

\* get_preview(count) is called: `entries = []`, nothing requested yet
PreviewStart(count) ==
    /\ source.kind \in {"json", "ecdict", "csv", "mdx"}
    /\ phase = "ready"
    /\ phase' = "preview"
    /\ result' = [count |-> count, raised |-> "", entries |-> <<>>]
    /\ pulled' = 0
    /\ UNCHANGED <<store, import_tasks, req, pc, loopOwner, locals, faultsLeft,
                   deleter, poller, history, source>>

\* one turn of `for i, entry in enumerate(self.parse()):` -- the next item is
\* requested from the generator, then `if i >= count: break`, else
\* `entries.append(entry)`; the loop ends when the generator is exhausted and
\* the call raises when the generator does
PreviewNext ==
    /\ phase = "preview"
    /\ LET parsed == Parsed(source)
           i == pulled
       IN IF pulled = Len(parsed.entries) /\ parsed.raised # ""
          THEN /\ result' = [result EXCEPT !.raised = parsed.raised]
               /\ phase' = "previewed"
               /\ UNCHANGED pulled
          ELSE IF pulled = Len(parsed.entries)
          THEN /\ phase' = "previewed"
               /\ UNCHANGED <<result, pulled>>
          ELSE /\ pulled' = pulled + 1
               /\ IF i >= result.count
                  THEN phase' = "previewed" /\ UNCHANGED result
                  ELSE /\ result' = [result EXCEPT
                                       !.entries = Append(@, parsed.entries[i + 1])]
                       /\ UNCHANGED phase
    /\ UNCHANGED <<store, import_tasks, req, pc, loopOwner, locals, faultsLeft,
                   deleter, poller, history, source>>

ParserNext ==
    \/ DetectFormat
    \/ ParseExchange
    \/ ParseJson
    \/ ParseEcdict
    \/ ParseCsv
    \/ ParseMdx
    \/ \E count \in 0..MaxPreview : PreviewStart(count)
    \/ PreviewNext

ParserSpec == ParserInit /\ [][ParserNext]_vars

Next ==
    \/ \E t \in Threads :
         \/ HttpCheckFile(t) \/ HttpCheckName(t) \/ HttpCreate(t) \/ HttpDelete(t)
         \/ Call(t) \/ GetFileInfo(t) \/ CheckName(t) \/ CreateDictionary(t)
         \/ RegisterTask(t) \/ CreateParser(t) \/ FillBatch(t) \/ AddBatch(t)
         \/ UpdateProgressDb(t) \/ UpdateProgressTask(t) \/ Callback(t)
         \/ Flush(t) \/ CompleteDb(t) \/ CompleteTask(t) \/ Elapsed(t)
         \/ FinalCallback(t) \/ FailDb(t) \/ FailTask(t)
         \/ StorageRaises(t) \/ ParserRaises(t) \/ CallbackRaises(t)
    \/ \E id \in DOMAIN entries : DeleteDb(id)
    \/ DeleteTask
    \/ \E id \in DOMAIN entries \cup {nextId} : PollCheck(id)
    \/ PollRead
    \/ PollDb

Spec == Init /\ [][Next]_vars

TypeOK ==
    /\ DOMAIN import_tasks \subseteq DOMAIN entries
    /\ DOMAIN dictionaries \subseteq DOMAIN entries
    /\ \A t \in Threads : batch[t] \in 0..BATCH_SIZE

\* ---- properties --------------------------------------------------------
Terminal(status) == status \in {"completed", "failed"}
Allowed(s1, s2) ==
    \/ s1 = s2
    \/ s1 = "pending" /\ s2 = "importing"
    \/ s1 = "importing" /\ Terminal(s2)
Finished(t) == pc[t] \in {"returned", "reraised", "raised", "rejected"}

\* C1: the status of a dictionary, in the durable record and in its
\* ImportTask, only moves pending -> importing -> completed or failed, and
\* never changes again once it is completed or failed.
C1_StatusOnlyMovesForward ==
    [][/\ \A id \in DOMAIN dictionaries \cap DOMAIN dictionaries' :
            Allowed(dictionaries[id].import_status, dictionaries'[id].import_status)
       /\ \A id \in DOMAIN import_tasks \cap DOMAIN import_tasks' :
            Allowed(import_tasks[id].status, import_tasks'[id].status)]_vars

\* C2: an import that returns after its parser yielded N entries has called
\* add_dictionary_entries_batch ceil(N / BATCH_SIZE) times and reports N as
\* entry count in the durable record and in the ImportTask.
C2_BatchCountConservation ==
    \A t \in Threads : pc[t] = "returned" =>
        LET id == dictionary_id[t] IN
        /\ batchCalls[t] = CeilDiv(req[t].n, BATCH_SIZE)
        /\ persisted[id] = req[t].n
        /\ id \in DOMAIN dictionaries => dictionaries[id].entry_count = req[t].n
        /\ id \in DOMAIN import_tasks => import_tasks[id].entry_count = req[t].n

C2_Witness ==
    \E t \in Threads :
        /\ pc[t] = "returned"
        /\ req[t].n > BATCH_SIZE /\ req[t].n % BATCH_SIZE # 0
        /\ batchCalls[t] = (req[t].n \div BATCH_SIZE) + 1
        /\ dictionary_id[t] \in DOMAIN dictionaries \cap DOMAIN import_tasks

\* the progress values an import wrote to one target, in order
Written(t, target) ==
    LET IsTarget(e) == e.op = target
        sel == SelectSeq(log[t], IsTarget)
    IN [i \in 1..Len(sel) |-> sel[i].progress]
NonDecreasing(ps) == \A i \in 1..(Len(ps) - 1) : Leq(ps[i], ps[i + 1])

\* C3: in an import that returns, the progress values written to the durable
\* record, and those written to the ImportTask, never decrease and end at 1.0.
C3_ProgressMonotone ==
    \A t \in Threads : pc[t] = "returned" =>
        \A target \in {"db", "task"} :
            LET ps == Written(t, target) IN
            /\ Len(ps) >= 2
            /\ ps[1] = Zero
            /\ NonDecreasing(ps)
            /\ ps[Len(ps)] = One

C3_Witness ==
    \E t \in Threads :
        /\ pc[t] = "returned"
        /\ total_count[t] > 0
        /\ Len(Written(t, "db")) >= 4
        /\ Len(Written(t, "task")) >= 4

InUnit(p) == Leq(Zero, p) /\ Leq(p, One)

\* C4: progress 1.0 implies status completed, status importing implies
\* progress at most 0.99, and progress lies in [0,1], in the durable record
\* and in the ImportTask.
C4_ProgressMatchesStatus ==
    /\ \A id \in DOMAIN dictionaries :
         LET d == dictionaries[id] IN
         /\ InUnit(d.import_progress)
         /\ d.import_progress = One => d.import_status = "completed"
         /\ d.import_status = "importing" => Leq(d.import_progress, Cap)
    /\ \A id \in DOMAIN import_tasks :
         LET k == import_tasks[id] IN
         /\ InUnit(k.progress)
         /\ k.progress = One => k.status = "completed"
         /\ k.status = "importing" => Leq(k.progress, Cap)

\* C5: when the parser or a storage call raised inside the import and the
\* error was re-raised, the durable record and the ImportTask both hold
\* status failed, the error message and progress 0.0.
C5_FailureRecordedInBoth ==
    \A t \in Threads :
        LET id == dictionary_id[t] IN
        (/\ pc[t] = "reraised"
         /\ cause[t].kind \in {"parser", "storage"}
         /\ id \in DOMAIN dictionaries \cap DOMAIN import_tasks)
        => /\ dictionaries[id].import_status = "failed"
           /\ dictionaries[id].import_error = error_msg[t]
           /\ dictionaries[id].import_progress = Zero
           /\ import_tasks[id].status = "failed"
           /\ import_tasks[id].error = error_msg[t]
           /\ import_tasks[id].progress = Zero

\* C6: when add_dictionary_entries_batch raised after k batches were
\* persisted, the record is failed with a non-empty error and an entry count
\* of the k persisted batches, which are still in the store.
C6_FailedCountIsPersisted ==
    \A t \in Threads :
        LET id == dictionary_id[t] IN
        (/\ pc[t] = "reraised"
         /\ cause[t].kind = "storage" /\ cause[t].at \in {"add_batch", "flush"}
         /\ id \in DOMAIN dictionaries)
        => /\ dictionaries[id].import_status = "failed"
           /\ dictionaries[id].import_error # ""
           /\ entries[id] = batchCalls[t] * BATCH_SIZE
           /\ dictionaries[id].entry_count = batchCalls[t] * BATCH_SIZE

\* C7: the entry_count of every ImportTask equals the number of entries
\* persisted so far for its dictionary.
C7_TaskCountIsPersisted ==
    \A id \in DOMAIN import_tasks : import_tasks[id].entry_count = persisted[id]

\* C7, amended: the entry_count of every ImportTask is a count that was
\* persisted: it never exceeds the number of entries persisted so far, is at
\* most PROGRESS_UPDATE_INTERVAL behind it, and equals it once completed.
C7_TaskCountLagsPersisted ==
    \A id \in DOMAIN import_tasks :
        /\ import_tasks[id].entry_count <= persisted[id]
        /\ persisted[id] - import_tasks[id].entry_count <= PROGRESS_UPDATE_INTERVAL
        /\ import_tasks[id].status = "completed"
              => import_tasks[id].entry_count = persisted[id]

C7_Witness ==
    \E id \in DOMAIN import_tasks :
        /\ import_tasks[id].entry_count = PROGRESS_UPDATE_INTERVAL
        /\ persisted[id] = 2 * PROGRESS_UPDATE_INTERVAL
        /\ import_tasks[id].status = "importing"

\* C8: an import whose name check finds a record raises the conflict error
\* and stops there: the step changes neither the store nor the registry, and
\* the call never reaches create_dictionary.
C8_ConflictBeforeCreate ==
    /\ [][\A t \in Threads :
            (/\ pc[t] = "check_name" /\ pc'[t] # "check_name"
             /\ get_dictionary_by_name(req[t].name) # {}
             /\ faultsLeft' = faultsLeft)
            => /\ pc'[t] = "raised" /\ cause'[t].kind = "conflict"
               /\ store' = store /\ import_tasks' = import_tasks
               /\ createCalls' = createCalls]_vars
    /\ [](\A t \in Threads : cause[t].kind = "conflict" =>
            /\ pc[t] = "raised"
            /\ createCalls[t] = (IF req[t].via = "http" THEN 1 ELSE 0)
            /\ Len(log[t]) = 0)

C8_Witness ==
    \E t \in Threads :
        /\ cause[t].kind = "conflict" /\ pc[t] = "raised"
        /\ get_dictionary_by_name(req[t].name) # {}

\* C9: at most one dictionary record carries a given name.
C9_NameUnique ==
    \A name \in Names : Cardinality(get_dictionary_by_name(name)) <= 1

\* C10: import_dictionary never calls create_dictionary for a file whose
\* detected format is unknown.
C10_UnknownFormatCreatesNothing ==
    \A t \in Threads :
        req[t].file = "unknown" => createCalls[t] = 0 /\ Len(log[t]) = 0

\* C11: every import that created its dictionary record ends with a terminal
\* status (completed or failed) in the durable record and in the ImportTask,
\* whatever storage, parser or callback call raised on the way; stated on the
\* state in which the call has ended.
C11_EndsTerminal ==
    \A t \in Threads :
        LET id == dictionary_id[t] IN
        (pc[t] \in {"returned", "reraised", "raised"} /\ Len(log[t]) > 0)
        => /\ id \in DOMAIN dictionaries
                => Terminal(dictionaries[id].import_status)
           /\ id \in DOMAIN import_tasks
                => Terminal(import_tasks[id].status)

\* C12: get_import_status(id) returns the registry's ImportTask when it found
\* the registry holding one for id, otherwise the status built from the durable
\* record, and none exactly when neither knows id; stated on the step in which
\* the call returns.
C12_StatusFromRegistryElseRecord ==
    [][(ppc # "done" /\ ppc' = "done") =>
          IF ppc = "found"
          THEN /\ ptarget \in DOMAIN import_tasks
               /\ presult' = TaskStatus(import_tasks[ptarget])
          ELSE IF ptarget \in DOMAIN dictionaries
               THEN presult' = RecordStatus(dictionaries[ptarget])
               ELSE presult' = NoStatus]_vars

\* C13: delete_dictionary(id) leaves the registry alone while the store
\* deletes, and on the step in which it returns the registry holds no task for
\* id, every other registry entry is what it was, the call returns true
\* exactly when the store reported at least one affected record, and neither
\* the registry nor the store knows id, so that get_import_status(id) has
\* nothing to return.
C13_DeleteFrame ==
    [][/\ (dpc = "idle" /\ dpc' = "db_deleted") => import_tasks' = import_tasks
       /\ (dpc = "db_deleted" /\ dpc' = "done") =>
             /\ dtarget \notin DOMAIN import_tasks'
             /\ DOMAIN import_tasks' = DOMAIN import_tasks \ {dtarget}
             /\ \A i \in DOMAIN import_tasks' : import_tasks'[i] = import_tasks[i]
             /\ dreturn' = (dresult > 0)
             /\ get_dictionary_by_id(dtarget)' = NoRecord]_vars

\* a delete that removed a record and its task while another task stayed
C13_Witness ==
    /\ dpc = "done" /\ dreturn
    /\ \E t \in Threads : dictionary_id[t] = dtarget /\ pc[t] # "idle"
                            /\ Len(log[t]) > 0
    /\ dtarget \notin DOMAIN import_tasks
    /\ DOMAIN import_tasks # {}

\* a delete of an identifier whose record the store no longer had
C13_WitnessNothingAffected == dpc = "done" /\ ~dreturn

\* the positions of import_dictionary whose next step is a registry operation
RegistryPcs == {"register", "update_progress_task", "complete_task", "elapsed",
                "fail_task"}

\* C14: the registry operations exclude one another: while get_import_status
\* is inside its registry operation (it has tested membership and has not yet
\* read the entry), no import thread and no delete_dictionary call performs a
\* registry operation.
C14_RegistryOperationsExclusive ==
    [][ppc = "found" =>
          /\ \A t \in Threads : pc[t] \in RegistryPcs => pc'[t] = pc[t]
          /\ dpc = "db_deleted" => dpc' = dpc]_vars

\* the batches passed so far follow one another without gap or overlap from
\* the parser's first entry on
Contiguous(bs) ==
    \A k \in 1..Len(bs) :
        /\ bs[k].first = IF k = 1 THEN 1 ELSE bs[k - 1].last + 1
        /\ bs[k].first <= bs[k].last

\* C15: the batches passed to add_dictionary_entries_batch, concatenated in
\* call order, are a prefix of the parser's sequence, nothing dropped,
\* duplicated or reordered, and the whole sequence once the import returns.
C15_BatchesArePrefix ==
    \A t \in Threads :
        /\ Contiguous(batches[t])
        /\ Len(batches[t]) > 0 => batches[t][Len(batches[t])].last <= req[t].n
        /\ pc[t] = "returned" =>
              IF req[t].n = 0 THEN batches[t] = <<>>
              ELSE /\ Len(batches[t]) > 0
                   /\ batches[t][Len(batches[t])].last = req[t].n

\* an import that returned after full batches and one last partial batch
C15_Witness ==
    \E t \in Threads :
        /\ pc[t] = "returned"
        /\ Len(batches[t]) >= 3
        /\ batches[t][Len(batches[t])].last = req[t].n
        /\ batches[t][Len(batches[t])].first = req[t].n

\* ---- properties of the parser operations ---------------------------------
\* the suffix is `ext` up to the case of its letters
HasExtension(file, ext) ==
    /\ Len(file.suffix) = Len(ext)
    /\ \A i \in 1..Len(ext) :
          \/ file.suffix[i] = ext[i]
          \/ file.suffix[i] \in DOMAIN LowerCase /\ LowerCase[file.suffix[i]] = ext[i]

\* the first line can be read and, decoded, contains the marker
HasMarker(file, marker) ==
    file.readable /\ Contains(Decoded(file.first_line), <<marker>>)

\* C18: detect_format is a function of the extension, compared without regard
\* to case, and for .csv of the first line: .mdx gives mdx, .json gives json,
\* .csv gives ecdict exactly when the first line contains the word marker, the
\* translation marker and the phonetic or the exchange marker, else csv; any
\* other extension gives unknown; a first line that cannot be read or decoded
\* raises nothing, and a second call on the same file returns the same tag.
C18_DetectFormat ==
    [][(source.kind = "file" /\ phase' # phase) =>
          /\ HasExtension(source, <<".", "m", "d", "x">>) => result' = "mdx"
          /\ HasExtension(source, <<".", "j", "s", "o", "n">>) => result' = "json"
          /\ HasExtension(source, <<".", "c", "s", "v">>) =>
                /\ result' \in {"ecdict", "csv"}
                /\ result' = "ecdict" <=>
                      /\ HasMarker(source, "word")
                      /\ HasMarker(source, "translation")
                      /\ HasMarker(source, "phonetic") \/ HasMarker(source, "exchange")
          /\ (\A ext \in {<<".", "m", "d", "x">>, <<".", "j", "s", "o", "n">>,
                          <<".", "c", "s", "v">>} : ~HasExtension(source, ext))
                => result' = "unknown"
          /\ phase = "detected" => result' = result]_vars

\* a .CSV file with the markers of the lexical dialect, detected twice
C18_Witness ==
    /\ phase = "redetected" /\ result = "ecdict"
    /\ source.suffix = <<".", "C", "S", "V">>

\* a .csv file whose first line cannot be read, detected as csv
C18_WitnessUnreadable ==
    /\ phase = "redetected" /\ result = "csv"
    /\ ~source.readable /\ Contains(source.first_line, <<"word", "translation", "phonetic">>)

\* the exchange string of a verb with four forms
\* C19: decoding the exchange string "p:went/d:gone/i:going/3:goes" gives
\* exactly the mapping {past: went, done: gone, ing: going, third: goes}, with
\* no other key.
C19_ExchangeExample ==
    (source.kind = "exchange" /\ phase = "done" /\ source.text = WentGoneGoingGoes)
    => result = Some((<<"past">> :> <<"went">>) @@ (<<"done">> :> <<"gone">>)
                     @@ (<<"ing">> :> <<"going">>) @@ (<<"third">> :> <<"goes">>))

\* the example string has been decoded
C19_Witness ==
    /\ source.kind = "exchange" /\ phase = "done"
    /\ source.text = WentGoneGoingGoes
    /\ result.is = "some" /\ DOMAIN result.value # {}

\* C20: a JSON flat map whose values are all strings yields one entry per
\* key, in the key order of the document, with the key as word, the value as
\* translation and no other field; {"hello": "nihao", "world": "shijie"}
\* yields exactly hello/nihao then world/shijie.
C20_FlatMapOfStrings ==
    (/\ source.kind = "json" /\ source.form = "dict" /\ phase = "done"
     /\ \A i \in DOMAIN source.items : source.items[i].value.type = "str")
    => /\ result.raised = ""
       /\ Len(result.entries) = Len(source.items)
       /\ \A i \in DOMAIN source.items :
             /\ DOMAIN result.entries[i] = {"word", "translation"}
             /\ result.entries[i]["word"] = source.items[i].key
             /\ result.entries[i]["translation"] = source.items[i].value.text

\* the two-key example has been parsed
C20_Witness ==
    /\ source.kind = "json" /\ source.form = "dict" /\ phase = "done"
    /\ source.items = <<[key |-> Hello, value |-> Str(NiHao)],
                        [key |-> World, value |-> Str(ShiJie)]>>
    /\ result.entries = <<Entry(Hello, NiHao), Entry(World, ShiJie)>>

\* the sources that have a parse() and the entries parse() yielded from them
ParseKinds == {"json", "ecdict", "csv", "mdx"}
ValidEntry(entry) ==
    strip(entry["word"]) # <<>> /\ strip(entry["translation"]) # <<>>

\* C16: whichever parser read the source (generic CSV, lexical CSV, JSON array,
\* JSON flat map with string or object values, compressed container), every
\* entry it yielded has a word and a translation that are non-empty after
\* trimming.
C16_YieldedEntriesValid ==
    (source.kind \in ParseKinds /\ phase = "done")
    => \A i \in DOMAIN result.entries : ValidEntry(result.entries[i])

\* C17: get_preview(n) returns the first min(n, total) entries of parse() in
\* order and has requested no more than n items from the lazy sequence when it
\* returns.
C17_PreviewPullsAtMostCount ==
    (phase = "previewed" /\ result.raised = "")
    => LET total == Len(Parsed(source).entries)
       IN /\ result.entries = SubSeq(Parsed(source).entries, 1, Min(result.count, total))
          /\ pulled <= result.count

\* C21: one import request (a direct call, or the HTTP handler with the
\* import it hands to a worker) calls create_dictionary at most once, exactly
\* once when its import returns, and no step of the request removes from the
\* store the record the request created.
C21_CreatesOnceNeverDeletes ==
    [][\A t \in Threads :
          /\ createCalls'[t] <= 1
          /\ pc'[t] = "returned" => createCalls'[t] = 1
          /\ (pc'[t] # pc[t] /\ dictionary_id[t] \in DOMAIN dictionaries)
                => dictionary_id[t] \in DOMAIN dictionaries']_vars

\* C22: import_dictionary on a path that does not exist raises the not-found
\* error of get_file_info before the name check and before create_dictionary:
\* no step of the call changes the store or the registry, also when the name
\* is already taken.
C22_MissingFileChangesNothing ==
    [][\A t \in Threads :
          (req[t].via = "sync" /\ req[t].file = "missing" /\ pc'[t] # pc[t])
          => /\ store' = store
             /\ import_tasks' = import_tasks
             /\ pc'[t] \in {"get_file_info", "raised"}
             /\ pc'[t] = "raised" => cause'[t].kind = "file"]_vars

\* a call on a missing path has raised not-found while its name was taken
C22_Witness ==
    \E t \in Threads :
        /\ req[t].via = "sync" /\ req[t].file = "missing"
        /\ pc[t] = "raised" /\ cause[t].kind = "file"
        /\ get_dictionary_by_name(req[t].name) # {}
        /\ createCalls[t] = 0

\* the last event of one kind an import logged
LastLogged(t, op) ==
    LET IsOp(e) == e.op = op
        sel == SelectSeq(log[t], IsOp)
    IN IF sel = <<>> THEN None ELSE Some(sel[Len(sel)])

\* the positions of import_dictionary inside its entry loop
LoopPcs == {"parse", "add_batch", "update_progress_db", "update_progress_task",
            "callback", "flush"}

FinalReports(t) ==
    {i \in 1..Len(log[t]) : log[t][i].op = "callback" /\ log[t][i].progress = One}

\* import_dictionary is in, or has left through, its except branch
Failing(t) == pc[t] \in {"fail_db", "fail_task", "reraised"}

\* C24: the callback is called with 1.0 only when the whole source is
\* persisted and the last writes to the durable record and to the ImportTask
\* are the completed ones; an import that returns with a callback has reported
\* 1.0 exactly once, as its last invocation, with the final entry count; and an
\* import that fails has never called the callback with 1.0.
C24_FinalReportOnceOnSuccess ==
    \A t \in Threads :
        /\ pc[t] = "final_callback"
           => /\ remaining[t] = 0
              /\ imported_count[t] = req[t].n
              /\ batchCalls[t] = CeilDiv(req[t].n, BATCH_SIZE)
              /\ LastLogged(t, "db") = Some(Event("db", One, req[t].n))
              /\ LastLogged(t, "task") = Some(Event("task", One, req[t].n))
              /\ FinalReports(t) = {}
        /\ (pc[t] = "returned" /\ req[t].cb)
           => /\ FinalReports(t) = {Len(log[t])}
              /\ log[t][Len(log[t])].entry_count = req[t].n
        /\ Failing(t)
           => /\ FinalReports(t) = {}
              /\ cause[t].at # "final_callback"
\* the number of entries in the i-th batch an import passed to the store
BatchLen(t, i) == batches[t][i].last - batches[t][i].first + 1

\* the batches dispatched so far are non-empty and all but the last are full
BatchesWellSized(t) ==
    \A i \in 1..Len(batches[t]) :
        /\ BatchLen(t, i) >= 1
        /\ i < Len(batches[t]) => BatchLen(t, i) = BATCH_SIZE

\* C25, as stated: the batch never holds more than BATCH_SIZE entries, every
\* dispatched batch is non-empty, all but the last hold exactly BATCH_SIZE, and
\* the batch is empty right after each dispatch.
C25_BatchEmptyAfterEachDispatch ==
    [][\A t \in Threads :
          /\ batch'[t] <= BATCH_SIZE
          /\ BatchesWellSized(t)'
          /\ batches'[t] # batches[t] => batch'[t] = 0]_vars

\* C25, amended: the same bounds, and the batch is empty right after each
\* dispatch of a full batch inside the loop; the trailing dispatch after the
\* loop leaves the partial batch as it was.
C25_BatchEmptyAfterFullDispatch ==
    [][\A t \in Threads :
          /\ batch'[t] <= BATCH_SIZE
          /\ BatchesWellSized(t)'
          /\ (batches'[t] # batches[t] /\ pc[t] = "add_batch") => batch'[t] = 0
          /\ (batches'[t] # batches[t] /\ pc[t] = "flush")
                => batch'[t] = batch[t] /\ batch[t] \in 1..(BATCH_SIZE - 1)]_vars

C25_Witness ==
    \E t \in Threads :
        /\ pc[t] = "complete_db"
        /\ Len(batches[t]) >= 3
        /\ BatchLen(t, Len(batches[t])) < BATCH_SIZE
        /\ batch[t] = BatchLen(t, Len(batches[t]))
\* some header is one of `aliases` once lower-cased and trimmed
HasAlias(fieldnames, aliases) ==
    \E i \in DOMAIN fieldnames : strip(lower(fieldnames[i])) \in aliases

\* the cell is missing, empty or blank
BlankCell(cell) == cell.type = "none" \/ strip(cell.text) = <<>>

\* C26: CSVParser.parse raises the missing-column error, having yielded
\* nothing, whenever the header has no word alias or no translation alias; and
\* on a file with both whose rows all have a blank word or a blank translation
\* it skips every row and ends without raising.
C26_MissingColumnsRaiseBlankRowsSkipped ==
    (phase = "done" /\ source.kind = "csv")
    => LET h == source.fieldnames
           complete == HasAlias(h, WORD_COLUMNS) /\ HasAlias(h, TRANSLATION_COLUMNS)
           mapping == detect_columns(h, <<>>)
       IN /\ ~complete => result = Raising("ValueError")
          /\ (complete /\ \A i \in DOMAIN source.rows :
                             \/ BlankCell(source.rows[i][mapping["word"]])
                             \/ BlankCell(source.rows[i][mapping["translation"]]))
             => result = Yielded(<<>>)
\* group 1 of every successive match of `open([^close]+)close` in content
RECURSIVE AllMatches(_, _, _)
AllMatches(content, open, close) ==
    IF content = <<>> THEN <<>>
    ELSE LET end == Find(Tail(content), close)
         IN IF Head(content) = open /\ end >= 2
            THEN <<SubSeq(content, 2, end)>>
                 \o AllMatches(SubSeq(content, end + 2, Len(content)), open, close)
            ELSE AllMatches(Tail(content), open, close)

HasIpa(text) == \E i \in DOMAIN text : text[i] \in IpaRuns

\* the bracketed, slash-delimited and full-width-bracketed substrings of
\* content that hold an IPA character, trimmed, in the order of each kind
IpaSubstrings(content, open, close) ==
    LET IsIpa(m) == HasIpa(m)
        sel == SelectSeq(AllMatches(content, open, close), IsIpa)
    IN [i \in DOMAIN sel |-> strip(sel[i])]
AnyIpaSubstrings(content) ==
    IpaSubstrings(content, "[", "]") \o IpaSubstrings(content, "/", "/")
    \o IpaSubstrings(content, FullWidthOpen, FullWidthClose)

\* C27: the entry of an item carries a phonetic exactly when the content has a
\* bracketed, slash-delimited or full-width-bracketed substring with an IPA
\* character, also behind an earlier substring of the same kind without one,
\* and the phonetic is the first such substring of its kind.
C27_FirstIpaSubstring ==
    (phase = "done" /\ source.kind = "mdx" /\ Len(source.items) = 1
        /\ result.entries # <<>>)
    => LET content == source.items[1].content
           entry == result.entries[1]
           found == AnyIpaSubstrings(content)
       IN /\ "phonetic_uk" \in DOMAIN entry <=> found # <<>>
          /\ "phonetic_uk" \in DOMAIN entry
                => \E open \in {"[", "/", FullWidthOpen} :
                      LET close == IF open = "[" THEN "]"
                                   ELSE IF open = "/" THEN "/" ELSE FullWidthClose
                          ofKind == IpaSubstrings(content, open, close)
                      IN ofKind # <<>> /\ entry["phonetic_uk"] = ofKind[1]
\* the parts of the decoded string that hold a colon, as code and form
CodedParts(text) ==
    LET parts == IF text = <<>> THEN <<>> ELSE split(text, "/")
        HasColon(part) == Find(part, ":") > 0
        sel == SelectSeq(parts, HasColon)
    IN [i \in DOMAIN sel |->
          [code |-> SubSeq(sel[i], 1, Find(sel[i], ":") - 1),
           form |-> SubSeq(sel[i], Find(sel[i], ":") + 1, Len(sel[i]))]]

\* the decoder has applied `table`: every part with a colon is filed under
\* the kind of its code, or under the code itself when the table lacks it, the
\* last part of a kind wins, parts without a colon leave no trace, and there
\* is no mapping when no part has a colon
DecodedBy(table) ==
    (source.kind = "exchange" /\ phase = "done")
    => LET coded == CodedParts(source.text)
           KindOf(code) == IF code \in DOMAIN table THEN table[code] ELSE code
       IN IF coded = <<>> THEN result = None
          ELSE /\ result.is = "some"
               /\ DOMAIN result.value = {KindOf(coded[i].code) : i \in DOMAIN coded}
               /\ \A i \in DOMAIN coded :
                     (\A j \in DOMAIN coded :
                         KindOf(coded[j].code) = KindOf(coded[i].code) => j <= i)
                     => result.value[KindOf(coded[i].code)] = coded[i].form

\* C28, as stated: the decoder files 3 under third-person, r under
\* comparative and t under superlative (p past, d done, i ing, s plural,
\* 0 and 1 lemma), keeps an unknown code as key, ignores parts without a colon
\* and returns no mapping when no part decodes.
C28_CanonicalKinds ==
    DecodedBy((<<"p">> :> <<"past">>) @@ (<<"d">> :> <<"done">>)
              @@ (<<"i">> :> <<"ing">>) @@ (<<"3">> :> <<"third-person">>)
              @@ (<<"r">> :> <<"comparative">>) @@ (<<"t">> :> <<"superlative">>)
              @@ (<<"s">> :> <<"plural">>) @@ (<<"0">> :> <<"lemma">>)
              @@ (<<"1">> :> <<"lemma">>))

\* C28, amended: the same with the keys the table holds: 3 is filed under
\* third, r under er and t under est.
C28_TableKinds ==
    DecodedBy((<<"p">> :> <<"past">>) @@ (<<"d">> :> <<"done">>)
              @@ (<<"i">> :> <<"ing">>) @@ (<<"3">> :> <<"third">>)
              @@ (<<"r">> :> <<"er">>) @@ (<<"t">> :> <<"est">>)
              @@ (<<"s">> :> <<"plural">>) @@ (<<"0">> :> <<"lemma">>)
              @@ (<<"1">> :> <<"lemma">>))

\* "r:better/went" has been decoded to {er: better}
C28_Witness ==
    /\ source.kind = "exchange" /\ phase = "done"
    /\ source.text = <<"r", ":", "better", "/", "went">>
    /\ result = Some(<<"er">> :> <<"better">>)

\* "went" has been decoded to no mapping
C28_WitnessNothingDecodes ==
    /\ source.kind = "exchange" /\ phase = "done"
    /\ source.text = <<"went">>
    /\ result = None
\* the failed records that carry `name`
FailedUnder(name) ==
    {id \in get_dictionary_by_name(name) : dictionaries[id].import_status = "failed"}

\* C29: an import that failed takes no further step and creates nothing
\* more; a failed record stays as it is until the delete removes it; while a
\* failed record carries a name, the name check of every import under that
\* name ends the call with the conflict (or with the error of the storage
\* call, when that raises) and changes nothing; and once no record carries the
\* name the check lets the import through and it creates a record under an
\* identifier no record has or had, importing at progress 0.
C29_FailedNameBlockedUntilDeleted ==
    [][/\ \A t \in Threads :
            /\ pc[t] = "reraised" => pc'[t] = "reraised"
            /\ Failing(t) => createCalls'[t] = createCalls[t]
            /\ (pc[t] = "check_name" /\ pc'[t] # pc[t]
                  /\ FailedUnder(req[t].name) # {})
               => /\ pc'[t] = "raised" /\ cause'[t].kind \in {"conflict", "storage"}
                  /\ store' = store /\ import_tasks' = import_tasks
            /\ (pc[t] = "http_check_name" /\ pc'[t] # pc[t]
                  /\ FailedUnder(req[t].name) # {})
               => /\ pc'[t] = "rejected"
                  /\ store' = store /\ import_tasks' = import_tasks
            /\ (pc[t] = "check_name" /\ pc'[t] # pc[t]
                  /\ get_dictionary_by_name(req[t].name) = {})
               => \/ pc'[t] = "create"
                  \/ pc'[t] = "raised" /\ cause'[t].kind = "storage"
            /\ (pc[t] = "create" /\ pc'[t] = "register")
               => LET id == dictionary_id'[t]
                  IN /\ id \notin DOMAIN dictionaries /\ id \notin DOMAIN entries
                     /\ \A u \in Threads : dictionary_id[u] # id
                     /\ id \in DOMAIN dictionaries'
                     /\ dictionaries'[id].name = req[t].name
                     /\ dictionaries'[id].import_status = "importing"
                     /\ dictionaries'[id].import_progress = Zero
                     /\ dictionaries'[id].entry_count = 0
       /\ \A id \in DOMAIN dictionaries :
            dictionaries[id].import_status = "failed"
            => \/ id \in DOMAIN dictionaries' /\ dictionaries'[id] = dictionaries[id]
               \/ dpc = "idle" /\ dpc' = "db_deleted" /\ dtarget' = id]_vars

\* a second import under the name of a failed import was let through after
\* the failed record was deleted, and has created its own record
C29_Witness ==
    \E t, u \in Threads :
        /\ t # u /\ req[t].name = req[u].name
        /\ pc[t] = "reraised"
        /\ dpc = "done" /\ dtarget = dictionary_id[t] /\ dreturn
        /\ req[u].via = "sync" /\ pc[u] = "register"
        /\ dictionary_id[u] # dictionary_id[t]
        /\ dictionary_id[u] \in DOMAIN dictionaries

\* a second import under the name of a failed import ended with the conflict
C29_WitnessConflict ==
    \E t, u \in Threads :
        /\ t # u /\ req[t].name = req[u].name
        /\ pc[t] = "reraised"
        /\ FailedUnder(req[t].name) = {dictionary_id[t]}
        /\ pc[u] = "raised" /\ cause[u].kind = "conflict"
        /\ createCalls[u] = 0
\* C30: once delete_dictionary(id) has returned, no step puts an entry for id
\* into the registry, and no import of id returns it as its result.
C30_DeletedStaysDeleted ==
    [][dpc = "done"
       => /\ dtarget \notin DOMAIN import_tasks'
          /\ \A t \in Threads :
                (pc[t] # "returned" /\ pc'[t] = "returned")
                => dictionary_id[t] # dtarget]_vars
====
